---- MODULE Spec2Model ----
(***************************************************************************)
(* Model of ApiFileStub: the path guard, the route table kept in           *)
(* config/routes.txt, the request resolution of /api/*, the handlers that  *)
(* touch the content root, and the in-memory log history.                  *)
(*                                                                         *)
(* A Rust string is modelled as a sequence of one-character strings, so    *)
(* that trimming, splitting, prefix tests and the write/parse round trip   *)
(* of routes.txt are computed the way the code computes them.  Paths       *)
(* follow std::path on Unix: '/' is the only separator and a backslash is  *)
(* an ordinary character of a file name.                                   *)
(***************************************************************************)
EXTENDS Integers, Sequences, FiniteSets, TLC

VARIABLES
    routes,        \* text of config/routes.txt ("" when the file is missing)
    ping_file,     \* text of config/ping_endpoint.txt
    refresh_file,  \* text of config/refresh_endpoint.txt
    dirs,          \* names of the directories that exist under json/
    req,           \* the request handled last
    resp,          \* the response given to it, with what the handler touched
    last,          \* history: key -> file of the latest successful upsert
    written,       \* history: the list handed to the latest write_route_mappings
    arg,           \* PathGuard harness: the string under test
    out,           \* PathGuard harness: the results computed for arg
    log_init,      \* whether LOG_STATE has been set
    buffer,        \* LogState.buffer, oldest line first
    subs,          \* receiver -> its unread lines of the broadcast channel
    published,     \* history: number of lines handed to log_line so far
    feed,          \* history: receiver -> what its live feed has seen
    call,          \* history: the LogHub operation called last, and its outcome
    ignore_file,   \* text of config/log_ignore.txt ("" when the file is missing)
    enabled_file   \* text of config/log_enabled.txt

vars == <<routes, ping_file, refresh_file, dirs, req, resp, last, written,
          arg, out, log_init, buffer, subs, published, feed, call,
          ignore_file, enabled_file>>

configVars == <<routes, ping_file, refresh_file>>
guardVars == <<arg, out>>
hubVars == <<log_init, buffer, subs, published, feed, call>>
logConfigVars == <<ignore_file, enabled_file>>
logVars == <<hubVars, logConfigVars>>

(***************************************************************************)
(* Bounds of the model.                                                    *)
(***************************************************************************)
MaxPathLen == 3      \* length of the generated PathGuard inputs
MaxTable == 2        \* lines a route table may hold in the handler runs
MaxPublish == 260    \* lines published in the log runs
MaxJoinAt == 2       \* a receiver subscribes after at most this many lines
MaxHubLines == 3     \* lines published in the runs of the log state's life
MaxLineLen == 4      \* length of the generated lines of log_ignore.txt
MaxIgnoreLines == 2  \* lines of log_ignore.txt
MaxScalarLen == 3    \* characters of a scalar endpoint file
MaxLogged == 4       \* lines logged by the requests of the middleware runs
MaxRaceLines == 3    \* lines logged by the concurrent log_line calls
MaxDecodeLen == 4    \* bytes of an input of url_decode
MaxEditedLines == 2  \* lines of a hand-edited routes.txt

(***************************************************************************)
(* Constants of the program.                                               *)
(***************************************************************************)
LogCap == 200        \* the history keeps at most this many lines
ChannelCap == 256    \* capacity of the broadcast channel

(***************************************************************************)
(* Strings.                                                                *)
(***************************************************************************)
\* Option<T>: None is the empty sequence, Some(x) the one-element sequence
None == <<>>
Some(x) == <<x>>
IsSome(o) == o # <<>>
Unwrap(o) == o[1]

WhiteSpace == {" ", "\n"}

Max(a, b) == IF a >= b THEN a ELSE b
Min(a, b) == IF a <= b THEN a ELSE b

\* str::starts_with
StartsWith(s, p) ==
    /\ Len(p) <= Len(s)
    /\ SubSeq(s, 1, Len(p)) = p

\* str::ends_with
EndsWith(s, p) ==
    /\ Len(p) <= Len(s)
    /\ SubSeq(s, Len(s) - Len(p) + 1, Len(s)) = p

\* str::contains(char)
Contains(s, c) == \E i \in 1..Len(s) : s[i] = c

RECURSIVE TrimStart(_)
TrimStart(s) ==
    IF s # <<>> /\ Head(s) \in WhiteSpace THEN TrimStart(Tail(s)) ELSE s

RECURSIVE TrimEnd(_)
TrimEnd(s) ==
    IF s # <<>> /\ s[Len(s)] \in WhiteSpace
    THEN TrimEnd(SubSeq(s, 1, Len(s) - 1)) ELSE s

\* str::trim
Trim(s) == TrimEnd(TrimStart(s))

\* str::trim_start_matches(pattern): strips the pattern as often as it repeats
RECURSIVE TrimStartMatches(_, _)
TrimStartMatches(s, p) ==
    IF p # <<>> /\ StartsWith(s, p)
    THEN TrimStartMatches(SubSeq(s, Len(p) + 1, Len(s)), p)
    ELSE s

LowerLetters == <<"a", "b", "c", "d", "e", "f", "g", "h", "i", "j", "k", "l", "m",
                  "n", "o", "p", "q", "r", "s", "t", "u", "v", "w", "x", "y", "z">>
UpperLetters == <<"A", "B", "C", "D", "E", "F", "G", "H", "I", "J", "K", "L", "M",
                  "N", "O", "P", "Q", "R", "S", "T", "U", "V", "W", "X", "Y", "Z">>

\* char::to_uppercase (ASCII)
UpperChar(c) ==
    IF \E k \in 1..Len(LowerLetters) : LowerLetters[k] = c
    THEN UpperLetters[CHOOSE k \in 1..Len(LowerLetters) : LowerLetters[k] = c]
    ELSE c

\* str::to_uppercase
ToUpper(s) == [i \in 1..Len(s) |-> UpperChar(s[i])]

\* str::split(sep): the pieces between separators, empty pieces included
RECURSIVE SplitAt(_, _, _)
SplitAt(s, seps, cur) ==
    IF s = <<>> THEN <<cur>>
    ELSE IF Head(s) \in seps
         THEN <<cur>> \o SplitAt(Tail(s), seps, <<>>)
         ELSE SplitAt(Tail(s), seps, Append(cur, Head(s)))

Split(s, seps) == SplitAt(s, seps, <<>>)

\* str::split_whitespace: the non-empty pieces between runs of whitespace
SplitWhitespace(s) == SelectSeq(Split(s, WhiteSpace), LAMBDA w : w # <<>>)

\* str::lines: split at newlines, a final empty piece is not a line
Lines(s) ==
    LET pieces == Split(s, {"\n"})
    IN  IF pieces[Len(pieces)] = <<>>
        THEN SubSeq(pieces, 1, Len(pieces) - 1)
        ELSE pieces

\* the strings of length n over an alphabet
RECURSIVE StringsOfLen(_, _)
StringsOfLen(alphabet, n) ==
    IF n = 0 THEN {<<>>}
    ELSE {Append(s, c) : s \in StringsOfLen(alphabet, n - 1), c \in alphabet}

StringsUpTo(alphabet, n) == UNION {StringsOfLen(alphabet, k) : k \in 0..n}

Range(f) == {f[i] : i \in DOMAIN f}

(***************************************************************************)
(* PathGuard.                                                              *)
(***************************************************************************)
\* is_safe_segment
is_safe_segment(segment) ==
    /\ segment # <<>>
    /\ segment # <<".">>
    /\ segment # <<".", ".">>
    /\ ~Contains(segment, "/")
    /\ ~Contains(segment, "\\")

\* std::path::Path::components on Unix, as is_safe_rel_path iterates it: a
\* leading '/' is RootDir, a leading "." is CurDir, ".." is ParentDir, every
\* other "." and every empty piece (doubled or trailing '/') is skipped.
Components(path) ==
    LET pieces == Split(path, {"/"})
        rooted == path # <<>> /\ path[1] = "/"
        kind(i) ==
            IF pieces[i] = <<".", ".">> THEN "ParentDir"
            ELSE IF pieces[i] = <<".">>
                 THEN (IF i = 1 /\ ~rooted THEN "CurDir" ELSE "Skip")
                 ELSE IF pieces[i] = <<>> THEN "Skip" ELSE "Normal"
        all == [i \in 1..Len(pieces) |-> [kind |-> kind(i), part |-> pieces[i]]]
        root == IF rooted THEN <<[kind |-> "RootDir", part |-> <<"/">>]>> ELSE <<>>
    IN  root \o SelectSeq(all, LAMBDA c : c.kind # "Skip")

\* is_safe_rel_path
is_safe_rel_path(path) ==
    LET components == Components(path)
    IN  \A i \in 1..Len(components) :
            /\ components[i].kind = "Normal"
            /\ components[i].part # <<>>

(***************************************************************************)
(* String constants of the program.                                        *)
(***************************************************************************)
GET == <<"G", "E", "T">>
POST == <<"P", "O", "S", "T">>
ApiPrefix == <<"/", "a", "p", "i", "/">>                 \* "/api/"
JsonPrefixAbs == <<"/", "j", "s", "o", "n", "/">>        \* "/json/"
JsonPrefixRel == <<"j", "s", "o", "n", "/">>             \* "json/"
DefaultPing == ApiPrefix \o <<"v", "1", "/", "p", "i", "n", "g">>
DefaultRefresh == ApiPrefix \o <<"v", "1", "/", "a", "u", "t", "h", "e", "n", "t", "i",
                                  "c", "a", "t", "i", "o", "n", "/", "r", "e", "f",
                                  "r", "e", "s", "h">>

(***************************************************************************)
(* ConfigStore: the route table in routes.txt.                             *)
(***************************************************************************)
RouteMapping(method, path, file) ==
    [method |-> method, path |-> path, file |-> file]

\* ParseRouteLine without the check of the file
ParseRouteLine_NoFileCheck(raw) ==
    LET line == Trim(raw)
        parts == SplitWhitespace(line)
        method == ToUpper(parts[1])
        path == parts[2]
        file == parts[3]
    IN  IF line = <<>> \/ Head(line) = "#" THEN <<>>
        ELSE IF Len(parts) < 1 THEN <<>>
        ELSE IF method # GET /\ method # POST THEN <<>>
        ELSE IF Len(parts) < 2 THEN <<>>
        ELSE IF Len(parts) < 3 THEN <<>>
        ELSE IF ~StartsWith(path, ApiPrefix)
                \/ ~is_safe_rel_path(TrimStartMatches(path, <<"/">>)) THEN <<>>
        ELSE <<RouteMapping(method, path, file)>>

\* the body of the loop of read_route_mappings for one line of the file:
\* the mapping the line yields, or nothing when the line is skipped
ParseRouteLine(raw) ==
    LET line == Trim(raw)
        parts == SplitWhitespace(line)
        method == ToUpper(parts[1])
        path == parts[2]
        file == parts[3]
    IN  IF line = <<>> \/ Head(line) = "#" THEN <<>>
        ELSE IF Len(parts) < 1 THEN <<>>
        ELSE IF method # GET /\ method # POST THEN <<>>
        ELSE IF Len(parts) < 2 THEN <<>>
        ELSE IF Len(parts) < 3 THEN <<>>
        ELSE IF ~StartsWith(path, ApiPrefix)
                \/ ~is_safe_rel_path(TrimStartMatches(path, <<"/">>)) THEN <<>>
        ELSE IF ~is_safe_rel_path(file) THEN <<>>
        ELSE <<RouteMapping(method, path, file)>>

RECURSIVE ParseRouteLines(_)
ParseRouteLines(lines) ==
    IF lines = <<>> THEN <<>>
    ELSE ParseRouteLine(Head(lines)) \o ParseRouteLines(Tail(lines))

RECURSIVE ParseUntilSkipped(_)
ParseUntilSkipped(lines) ==
    IF lines = <<>> \/ ParseRouteLine(Head(lines)) = <<>> THEN <<>>
    ELSE ParseRouteLine(Head(lines)) \o ParseUntilSkipped(Tail(lines))

\* read_route_mappings giving up the read at the first line it skips
read_route_mappings_StopAtSkipped(text) == ParseUntilSkipped(Lines(text))

\* read_route_mappings, of the text of routes.txt
read_route_mappings(text) == ParseRouteLines(Lines(text))

\* write_route_mappings: the text written to routes.txt
RECURSIVE write_route_mappings(_)
write_route_mappings(mappings) ==
    IF mappings = <<>> THEN <<>>
    ELSE Head(mappings).method \o <<" ">> \o Head(mappings).path \o <<" ">>
         \o Head(mappings).file \o <<"\n">>
         \o write_route_mappings(Tail(mappings))

\* find_route_mapping matching the path alone
find_route_mapping_AnyMethod(mappings, method, path) ==
    LET found == SelectSeq(mappings, LAMBDA m : m.path = path)
    IN  IF found = <<>> THEN None ELSE Some(found[1].file)

\* find_route_mapping: the file of the first entry with this method and
\* path; mappings is what its read_route_mappings() call returns
find_route_mapping(mappings, method, path) ==
    LET found == SelectSeq(mappings,
                           LAMBDA m : m.method = method /\ m.path = path)
    IN  IF found = <<>> THEN None ELSE Some(found[1].file)

\* normalize_json_file: Some(relative file), or None for the BAD_REQUEST
normalize_json_file(input) ==
    LET t0 == Trim(input)
        t1 == IF StartsWith(t0, JsonPrefixAbs)
              THEN TrimStartMatches(t0, JsonPrefixAbs) ELSE t0
        t2 == IF StartsWith(t1, JsonPrefixRel)
              THEN TrimStartMatches(t1, JsonPrefixRel) ELSE t1
    IN  IF StartsWith(t2, <<"/">>) THEN None ELSE Some(t2)

(***************************************************************************)
(* Responses.  A response records the status and what the handler did on   *)
(* its way to it: what the body is (the ping answer, the refresh answer,   *)
(* a file), whether the handler read or wrote the route table, the file it *)
(* handed to serve_mapped_json, and its accesses to the content root.      *)
(***************************************************************************)
Response(status) ==
    [status |-> status, body |-> "none", rt_read |-> FALSE, rt_write |-> FALSE,
     served |-> None, fs |-> <<>>]

BAD_REQUEST == Response("BAD_REQUEST")
NOT_FOUND == Response("NOT_FOUND")
INTERNAL_SERVER_ERROR == Response("INTERNAL_SERVER_ERROR")
REDIRECT == Response("REDIRECT")

(***************************************************************************)
(* set_route_mapping.  The form fields arrive as Option<String> (the       *)
(* result of form_value); io_ok is whether create_dir_all and fs::write    *)
(* succeed.                                                                *)
(***************************************************************************)
\* the method check of the handler: Some(normalised method) or None
RouteMethod(method) ==
    LET m == ToUpper(Trim(method))
    IN  IF m # GET /\ m # POST THEN None ELSE Some(m)

\* the path checks of the handler: Some(trimmed path) or None
RoutePath(path) ==
    LET p == Trim(path)
    IN  IF ~StartsWith(p, ApiPrefix) THEN None
        ELSE IF ~is_safe_rel_path(TrimStartMatches(p, <<"/">>)) THEN None
        ELSE Some(p)

\* the file checks of the handler: Some(normalised file) or None
RouteFile(file) ==
    LET f == normalize_json_file(file)
    IN  IF ~IsSome(f) THEN None
        ELSE IF ~is_safe_rel_path(Unwrap(f)) THEN None
        ELSE f

\* retain + push of the handler
Upsert(mappings, new) ==
    Append(SelectSeq(mappings,
                     LAMBDA m : ~(m.method = new.method /\ m.path = new.path)),
           new)

\* The handler: the response, the new text of routes.txt and, when it got
\* that far, the entry it upserted and the list it handed to the writer.
\* text is routes.txt and table what read_route_mappings() returns for it.
set_route_mapping_run(text, table, method, path, file, io_ok) ==
    LET rejected == [resp |-> BAD_REQUEST, routes |-> text,
                     entry |-> None, list |-> None]
        m == RouteMethod(Unwrap(method))
        p == RoutePath(Unwrap(path))
        f == RouteFile(Unwrap(file))
        new == RouteMapping(Unwrap(m), Unwrap(p), Unwrap(f))
        mappings == Upsert(table, new)
    IN  IF ~IsSome(method) \/ ~IsSome(path) \/ ~IsSome(file) THEN rejected
        ELSE IF ~IsSome(m) THEN rejected
        ELSE IF ~IsSome(p) THEN rejected
        ELSE IF ~IsSome(f) THEN rejected
        ELSE IF ~io_ok
             THEN [resp |-> [INTERNAL_SERVER_ERROR EXCEPT
                                 !.rt_read = TRUE, !.rt_write = TRUE],
                   routes |-> text, entry |-> None, list |-> None]
             ELSE [resp |-> [REDIRECT EXCEPT !.rt_read = TRUE, !.rt_write = TRUE],
                   routes |-> write_route_mappings(mappings),
                   entry |-> Some(new), list |-> Some(mappings)]

(***************************************************************************)
(* ConfigStore: the two scalar endpoints.                                  *)
(***************************************************************************)
\* read_ping_endpoint returning the contents as they are
read_ping_endpoint_NoTrim(text) ==
    IF text = <<>> THEN DefaultPing ELSE text

\* read_ping_endpoint, of the text of ping_endpoint.txt
read_ping_endpoint(text) ==
    LET trimmed == Trim(text)
    IN  IF trimmed = <<>> THEN DefaultPing ELSE trimmed

\* read_refresh_endpoint, of the text of refresh_endpoint.txt
read_refresh_endpoint(text) ==
    LET trimmed == Trim(text)
    IN  IF trimmed = <<>> THEN DefaultRefresh ELSE trimmed

\* set_ping_endpoint and set_refresh_endpoint: the response and the new text
\* of the endpoint's file
set_endpoint_run(text, path, io_ok) ==
    IF ~IsSome(path) THEN [resp |-> BAD_REQUEST, text |-> text]
    ELSE IF ~StartsWith(Unwrap(path), ApiPrefix)
         THEN [resp |-> BAD_REQUEST, text |-> text]
    ELSE IF ~is_safe_rel_path(TrimStartMatches(Unwrap(path), <<"/">>))
         THEN [resp |-> BAD_REQUEST, text |-> text]
    ELSE IF ~io_ok THEN [resp |-> INTERNAL_SERVER_ERROR, text |-> text]
    ELSE [resp |-> REDIRECT, text |-> Unwrap(path)]

(***************************************************************************)
(* Resolution of /api/*path.  ping and refresh are what read_ping_endpoint *)
(* and read_refresh_endpoint return, table what find_route_mapping's       *)
(* read_route_mappings() returns, and read the outcome of fs::read on the  *)
(* mapped file: "ok", "not_found" or "error".                              *)
(***************************************************************************)
FsRead(frags) == [op |-> "read", frags |-> frags]

\* serve_mapped_json
serve_mapped_json(file, read) ==
    [Response(CASE read = "ok" -> "OK"
                [] read = "not_found" -> "NOT_FOUND"
                [] OTHER -> "INTERNAL_SERVER_ERROR")
        EXCEPT !.body = IF read = "ok" THEN "file" ELSE "none",
               !.rt_read = TRUE,
               !.served = Some(file),
               !.fs = <<FsRead(<<file>>)>>]

\* ping_response and refresh_token: the stored answer or the built-in one
ping_response == [Response("OK") EXCEPT !.body = "ping"]
refresh_token == [Response("OK") EXCEPT !.body = "refresh"]

\* api_get with the table consulted before the ping endpoint
api_get_TableFirst(ping, table, path, read) ==
    LET requested == ApiPrefix \o path
        file == find_route_mapping(table, GET, requested)
    IN  IF IsSome(file) THEN serve_mapped_json(Unwrap(file), read)
        ELSE IF ping = requested THEN ping_response
        ELSE [NOT_FOUND EXCEPT !.rt_read = TRUE]

\* api_get
api_get(ping, table, path, read) ==
    LET requested == ApiPrefix \o path
        file == find_route_mapping(table, GET, requested)
    IN  IF ping = requested THEN ping_response
        ELSE IF IsSome(file) THEN serve_mapped_json(Unwrap(file), read)
        ELSE [NOT_FOUND EXCEPT !.rt_read = TRUE]

\* api_post
api_post(refresh, table, path, read) ==
    LET requested == ApiPrefix \o path
        file == find_route_mapping(table, POST, requested)
    IN  IF refresh = requested THEN refresh_token
        ELSE IF IsSome(file) THEN serve_mapped_json(Unwrap(file), read)
        ELSE [NOT_FOUND EXCEPT !.rt_read = TRUE]

(***************************************************************************)
(* The state after start-up with an empty configuration directory, an      *)
(* empty content root and an initialised log state.                        *)
(***************************************************************************)
NoRequest == [handler |-> "none"]

\* a call of a LogHub operation: whether LOG_STATE was set when it was made,
\* whether it panicked, and what it returned
HubCall(op, ready, aborted, result) ==
    [op |-> op, ready |-> ready, aborted |-> aborted, result |-> result]

NoCall == HubCall("none", TRUE, FALSE, <<>>)

Init ==
    /\ routes = <<>>
    /\ ping_file = <<>>
    /\ refresh_file = <<>>
    /\ dirs = <<>>
    /\ req = NoRequest
    /\ resp = Response("NONE")
    /\ last = <<>>
    /\ written = None
    /\ arg = <<>>
    /\ out = [rel |-> None, seg |-> None]
    /\ log_init = TRUE
    /\ buffer = <<>>
    /\ subs = <<>>
    /\ published = 0
    /\ feed = <<>>
    /\ call = NoCall
    /\ ignore_file = <<>>
    /\ enabled_file = <<>>

(***************************************************************************)
(* Form inputs of set_route_mapping: every combination of accepted field   *)
(* values, and every rejected value of one field beside accepted values of *)
(* the other two.                                                          *)
(***************************************************************************)
GoodMethods == {Some(GET), Some(<<" ", "p", "o", "s", "t">>)}
BadMethods == {None, Some(<<"P", "U", "T">>), Some(<<>>)}

GoodPaths ==
    {Some(ApiPrefix \o <<"x">>),                             \* "/api/x"
     Some(<<" ">> \o ApiPrefix \o <<"x", " ", "y", " ">>)}   \* " /api/x y "
BadPaths ==
    {None,
     Some(<<"/", "x">>),                             \* "/x"
     Some(<<"a", "p", "i", "/", "x">>),              \* "api/x"
     Some(ApiPrefix \o <<".", ".", "/", "x">>)}      \* "/api/../x"

GoodFiles ==
    {Some(<<"f">>),                                  \* "f"
     Some(JsonPrefixAbs \o <<"g">>),                 \* "/json/g"
     Some(<<"f", " ", "g">>)}                        \* "f g"
BadFiles ==
    {None,
     Some(<<"/", "f">>),                             \* "/f"
     Some(JsonPrefixRel \o <<"/", "f">>),            \* "json//f"
     Some(<<".", ".", "/", "f">>),                   \* "../f"
     Some(<<"d", "/", ".", ".", "/", "f">>)}         \* "d/../f"

RouteInput(m, p, f) == [method |-> m, path |-> p, file |-> f]

RouteInputs ==
    {RouteInput(m, p, f) : m \in GoodMethods, p \in GoodPaths, f \in GoodFiles}
    \cup {RouteInput(m, Some(ApiPrefix \o <<"x">>), Some(<<"f">>)) : m \in BadMethods}
    \cup {RouteInput(Some(GET), p, Some(<<"f">>)) : p \in BadPaths}
    \cup {RouteInput(Some(GET), Some(ApiPrefix \o <<"x">>), f) : f \in BadFiles}

(***************************************************************************)
(* POST /config/route-mapping                                              *)
(***************************************************************************)
SetRouteMapping(inputs) ==
    \E table \in {read_route_mappings(routes)}, in \in inputs, io_ok \in BOOLEAN :
        \E r \in {set_route_mapping_run(routes, table, in.method, in.path,
                                        in.file, io_ok)} :
            /\ IsSome(r.list) => Len(Unwrap(r.list)) <= MaxTable
            /\ req' = [handler |-> "set_route_mapping", method |-> in.method,
                       path |-> in.path, file |-> in.file]
            /\ resp' = r.resp
            /\ routes' = r.routes
            /\ last' = IF IsSome(r.entry)
                       THEN (<<Unwrap(r.entry).method, Unwrap(r.entry).path>>
                                 :> Unwrap(r.entry).file) @@ last
                       ELSE last
            /\ written' = IF IsSome(r.list) THEN r.list ELSE written
            /\ UNCHANGED <<ping_file, refresh_file, dirs, guardVars, logVars>>

(***************************************************************************)
(* Spec: the route table under set_route_mapping, from an empty table.     *)
(***************************************************************************)
AcceptedRouteInputs ==
    {RouteInput(m, p, f) : m \in GoodMethods, p \in GoodPaths, f \in GoodFiles}

Next == SetRouteMapping(AcceptedRouteInputs)

Spec == Init /\ [][Next]_vars

(***************************************************************************)
(* SpecReject: set_route_mapping with rejected inputs beside accepted      *)
(* ones, so that rejected calls meet a table that is not empty.            *)
(***************************************************************************)
RejectRunInputs ==
    {RouteInput(Some(GET), Some(ApiPrefix \o <<"x">>), Some(<<"f">>)),
     RouteInput(Some(<<" ", "p", "o", "s", "t">>), Some(ApiPrefix \o <<"x">>),
                Some(JsonPrefixAbs \o <<"g">>)),
     RouteInput(Some(GET), Some(<<" ">> \o ApiPrefix \o <<"y", " ">>),
                Some(JsonPrefixAbs \o JsonPrefixAbs \o <<"f">>))}   \* "/json//json/f"
    \cup (RouteInputs \ AcceptedRouteInputs)

NextReject == SetRouteMapping(RejectRunInputs)

SpecReject == Init /\ [][NextReject]_vars

(***************************************************************************)
(* Claims about the route table.                                           *)
(***************************************************************************)
KeyOf(m) == <<m.method, m.path>>

\* C1: starting from an empty table, after any sequence of successful
\* upserts with fields that pass the handler's validation,
\* read_route_mappings returns at most one entry per (method, path), and
\* that entry's file is the one given by the latest upsert for that pair.
C1_OneLatestEntryPerKey ==
    LET table == read_route_mappings(routes)
    IN  /\ \A i, j \in 1..Len(table) : KeyOf(table[i]) = KeyOf(table[j]) => i = j
        /\ \A i \in 1..Len(table) :
               /\ KeyOf(table[i]) \in DOMAIN last
               /\ table[i].file = last[KeyOf(table[i])]

\* an entry that is valid in the sense of the round-trip claim
ValidMapping(m) ==
    /\ m.method \in {GET, POST}
    /\ StartsWith(m.path, ApiPrefix)
    /\ is_safe_rel_path(TrimStartMatches(m.path, <<"/">>))
    /\ is_safe_rel_path(m.file)

\* C2: for every list of valid mappings, read_route_mappings run after
\* write_route_mappings returns the same set of (method, path, file)
\* triples that was written.
C2_WriteReadRoundTrip ==
    (/\ IsSome(written)
     /\ \A i \in 1..Len(Unwrap(written)) : ValidMapping(Unwrap(written)[i])
     /\ routes = write_route_mappings(Unwrap(written)))
    => Range(read_route_mappings(routes)) = Range(Unwrap(written))

(***************************************************************************)
(* Claims about the rejections of set_route_mapping.                       *)
(***************************************************************************)
IsRouteRequest(r) == r.handler = "set_route_mapping"

FieldMissing(r) == ~IsSome(r.method) \/ ~IsSome(r.path) \/ ~IsSome(r.file)

MethodRefused(r) == ToUpper(Trim(Unwrap(r.method))) \notin {GET, POST}

PathRefused(r) ==
    \/ ~StartsWith(Trim(Unwrap(r.path)), ApiPrefix)
    \/ ~is_safe_rel_path(TrimStartMatches(Trim(Unwrap(r.path)), <<"/">>))

\* the file with one leading "/json/", or else one leading "json/", removed
StripOnePrefix(f) ==
    IF StartsWith(f, JsonPrefixAbs) THEN SubSeq(f, Len(JsonPrefixAbs) + 1, Len(f))
    ELSE IF StartsWith(f, JsonPrefixRel)
         THEN SubSeq(f, Len(JsonPrefixRel) + 1, Len(f))
         ELSE f

FileRefusedOnePrefix(r) ==
    LET f == StripOnePrefix(Trim(Unwrap(r.file)))
    IN  StartsWith(f, <<"/">>) \/ ~is_safe_rel_path(f)

\* the call was answered BAD_REQUEST, routes.txt is as it was, and the
\* handler neither read nor wrote the route table
RejectedUntouched ==
    /\ resp'.status = "BAD_REQUEST"
    /\ routes' = routes
    /\ ~resp'.rt_read
    /\ ~resp'.rt_write

\* C7: set_route_mapping rejects with a client error, leaving
\* routes.txt as it was and the route table neither read nor written,
\* whenever a field is missing, the method is not GET or POST, the path does
\* not start with /api/ or is not traversal-safe, or the file with a leading
\* /json/ or json/ prefix removed begins with / or is not traversal-safe.
C7_RejectsAsStated ==
    [][(IsRouteRequest(req')
        /\ (FieldMissing(req')
            \/ MethodRefused(req') \/ PathRefused(req')
            \/ FileRefusedOnePrefix(req')))
       => RejectedUntouched]_vars

(***************************************************************************)
(* SpecGuard: is_safe_rel_path and is_safe_segment applied to a string.    *)
(***************************************************************************)
GuardAlphabet == {"a", "/", ".", "\\"}

NamedPaths ==
    {<<"a", "/", ".", ".", "/", "b">>,        \* "a/../b"
     <<"/", "a", "b", "s">>,                  \* "/abs"
     <<"a", "\\", "b">>,                      \* "a\b"
     <<"a", "/", "b", "/", "c">>,             \* "a/b/c"
     <<"a", "/", "/", "b">>,                  \* "a//b"
     <<"a", "/", ".", "/", "b">>}             \* "a/./b"

GuardInputs == StringsUpTo(GuardAlphabet, MaxPathLen) \cup NamedPaths

InitGuard ==
    /\ arg \in GuardInputs
    /\ out = [rel |-> None, seg |-> None]
    /\ routes = <<>> /\ ping_file = <<>> /\ refresh_file = <<>>
    /\ dirs = <<>> /\ req = NoRequest /\ resp = Response("NONE")
    /\ last = <<>> /\ written = None
    /\ log_init = TRUE /\ buffer = <<>> /\ subs = <<>> /\ published = 0
    /\ feed = <<>> /\ call = NoCall
    /\ ignore_file = <<>> /\ enabled_file = <<>>

CallSafeRelPath ==
    /\ ~IsSome(out.rel)
    /\ out' = [out EXCEPT !.rel = Some(is_safe_rel_path(arg))]
    /\ UNCHANGED <<configVars, dirs, req, resp, last, written, arg, logVars>>

CallSafeSegment ==
    /\ ~IsSome(out.seg)
    /\ out' = [out EXCEPT !.seg = Some(is_safe_segment(arg))]
    /\ UNCHANGED <<configVars, dirs, req, resp, last, written, arg, logVars>>

NextGuard == CallSafeRelPath \/ CallSafeSegment

SpecGuard == InitGuard /\ [][NextGuard]_vars

(***************************************************************************)
(* Claims about the path guard.                                            *)
(***************************************************************************)
RelPathSays(b) == IsSome(out.rel) => Unwrap(out.rel) = b
SegmentSays(b) == IsSome(out.seg) => Unwrap(out.seg) = b

\* C8: is_safe_rel_path returns false for "", ".", "..", "a/../b", "/abs"
\* and "a\b", and true for "a" and "a/b/c"; is_safe_segment returns false
\* for "", ".", ".." and any string containing / or \, and true for "a".
C8_GuardTable ==
    /\ arg \in {<<>>, <<".">>, <<".", ".">>, <<"a", "/", ".", ".", "/", "b">>,
                <<"/", "a", "b", "s">>, <<"a", "\\", "b">>}
          => RelPathSays(FALSE)
    /\ arg \in {<<"a">>, <<"a", "/", "b", "/", "c">>} => RelPathSays(TRUE)
    /\ (arg \in {<<>>, <<".">>, <<".", ".">>}
        \/ Contains(arg, "/") \/ Contains(arg, "\\")) => SegmentSays(FALSE)
    /\ arg = <<"a">> => SegmentSays(TRUE)

\* a piece between separators that is a plain, non-empty name (the empty
\* path has no pieces; it is the subject of C8)
PlainName(piece) ==
    piece # <<>> /\ piece # <<".">> /\ piece # <<".", ".">>

\* C9: is_safe_rel_path accepts a path only if every component obtained by
\* splitting it at separators is a plain non-empty name, so a trailing
\* separator, a doubled separator, a current-dir marker in any position, a
\* root and a parent reference are all rejected.
C9_AcceptsOnlyPlainNames ==
    LET pieces == IF arg = <<>> THEN <<>> ELSE Split(arg, {"/"})
    IN  (IsSome(out.rel) /\ Unwrap(out.rel))
        => \A i \in 1..Len(pieces) : PlainName(pieces[i])

(***************************************************************************)
(* LogHub.  Lines are numbered in publish order: the k-th line handed to   *)
(* log_line is the number k.  A receiver of the broadcast channel is       *)
(* modelled by its unread lines; the channel retains ChannelCap lines, so  *)
(* a receiver further behind loses its oldest unread lines.                *)
(***************************************************************************)
Receivers == {"r1"}

\* broadcast_send on a channel that keeps every unread line
broadcast_send_KeepAll(rx, line) == [r \in DOMAIN rx |-> Append(rx[r], line)]

\* broadcast::Sender::send: every receiver gets the line; with no receiver
\* the send fails and log_line ignores the failure
broadcast_send(rx, line) ==
    [r \in DOMAIN rx |->
        IF Len(rx[r]) >= ChannelCap
        THEN Append(Tail(rx[r]), line)
        ELSE Append(rx[r], line)]

\* log_line's buffer step with the eviction test off by one
log_line_buffer_EvictLate(buf, line) ==
    IF Len(buf) > LogCap THEN Append(Tail(buf), line) ELSE Append(buf, line)

\* log_line's buffer step: evict the oldest line when full, then append
log_line_buffer(buf, line) ==
    IF Len(buf) >= LogCap THEN Append(Tail(buf), line) ELSE Append(buf, line)

\* log_snapshot
log_snapshot == IF log_init THEN buffer ELSE <<>>

\* subscribe_logs with the history replayed to the new receiver
subscribe_logs_Replay(buf) == buf

\* subscribe_logs: the unread lines of the receiver that
\* sender.subscribe() creates; buf is the history at that moment
subscribe_logs(buf) == <<>>

\* what the live feed of a receiver has seen: the number of lines published
\* when it subscribed, the line its stream gave last (0: none yet), how
\* many lines the stream gave, and how many unread lines the channel dropped
NewFeed(joined) == [joined |-> joined, got |-> 0, count |-> 0, lost |-> 0]

\* log_line(line), the line being the next in publish order; without
\* LOG_STATE the line is discarded
LogLine ==
    /\ published < MaxPublish
    /\ published' = published + 1
    /\ call' = HubCall("log_line", log_init, FALSE, <<>>)
    /\ IF log_init
       THEN /\ subs' = broadcast_send(subs, published + 1)
            /\ buffer' = log_line_buffer(buffer, published + 1)
            /\ feed' = [r \in DOMAIN feed |->
                           [feed[r] EXCEPT !.lost =
                               @ + Len(subs[r]) + 1 - Len(subs'[r])]]
       ELSE UNCHANGED <<subs, buffer, feed>>
    /\ UNCHANGED <<configVars, dirs, req, resp, last, written, guardVars,
                   log_init, logConfigVars>>

\* sse_logs: subscribe_logs() panics without LOG_STATE, and creates a
\* receiver otherwise
SseLogs ==
    /\ IF log_init
       THEN \E r \in Receivers \ DOMAIN subs :
                /\ subs' = (r :> subscribe_logs(buffer)) @@ subs
                /\ feed' = (r :> NewFeed(published)) @@ feed
                /\ call' = HubCall("subscribe_logs", TRUE, FALSE, <<>>)
       ELSE /\ call' = HubCall("subscribe_logs", FALSE, TRUE, <<>>)
            /\ UNCHANGED <<subs, feed>>
    /\ UNCHANGED <<configVars, dirs, req, resp, last, written, guardVars,
                   log_init, buffer, published, logConfigVars>>

\* the SSE stream of a receiver takes its oldest unread line
StreamNext ==
    /\ \E r \in DOMAIN subs :
           /\ subs[r] # <<>>
           /\ subs' = [subs EXCEPT ![r] = Tail(subs[r])]
           /\ feed' = [feed EXCEPT ![r].got = Head(subs[r]),
                                   ![r].count = @ + 1]
    /\ UNCHANGED <<configVars, dirs, req, resp, last, written, guardVars,
                   log_init, buffer, published, call, logConfigVars>>

NextLog ==
    \/ LogLine
    \/ (published <= MaxJoinAt /\ SseLogs)
    \/ StreamNext

SpecLog == Init /\ [][NextLog]_vars

(***************************************************************************)
(* Claims about the log history.                                           *)
(***************************************************************************)
\* C10: the history never holds more than 200 lines, and after N lines have
\* been published one after another log_snapshot returns the last
\* min(N, 200) of them in publish order.
C10_HistoryIsLastLines ==
    /\ Len(buffer) <= LogCap
    /\ Len(log_snapshot) = Min(published, LogCap)
    /\ \A i \in 1..Len(log_snapshot) :
           log_snapshot[i] = published - Len(log_snapshot) + i

\* 250 lines published: 200 are left, the oldest of them the 51st
C10_Witness ==
    /\ published = 250
    /\ Len(log_snapshot) = 200
    /\ log_snapshot[1] = 51
    /\ log_snapshot[200] = 250

(***************************************************************************)
(* SpecHub: the LogHub operations from a process in which LOG_STATE has    *)
(* not been set yet, init_log_state being one of the operations.           *)
(***************************************************************************)
\* what LOG_STATE holds
HubState == [init |-> log_init, buffer |-> buffer, subs |-> subs]

\* the LogState that init_log_state builds
FreshHub == [init |-> TRUE, buffer |-> <<>>, subs |-> <<>>]

\* init_log_state putting its new LogState in place of the one that is set
init_log_state_Replace(state) == FreshHub

\* init_log_state: OnceLock::set keeps the value that is already set, and
\* its Err is discarded
init_log_state(state) == IF state.init THEN state ELSE FreshHub

InitLogState ==
    \E s \in {init_log_state(HubState)} :
        /\ log_init' = s.init
        /\ buffer' = s.buffer
        /\ subs' = s.subs
        /\ feed' = [r \in DOMAIN s.subs |-> feed[r]]
        /\ call' = HubCall("init_log_state", log_init, FALSE, <<>>)
        /\ UNCHANGED <<configVars, dirs, req, resp, last, written, guardVars,
                       published, logConfigVars>>

\* a call of log_snapshot
LogSnapshot ==
    /\ call' = HubCall("log_snapshot", log_init, FALSE, log_snapshot)
    /\ UNCHANGED <<configVars, dirs, req, resp, last, written, guardVars,
                   log_init, buffer, subs, published, feed, logConfigVars>>

InitHub ==
    /\ log_init = FALSE
    /\ buffer = <<>> /\ subs = <<>> /\ published = 0
    /\ feed = <<>> /\ call = NoCall
    /\ ignore_file = <<>> /\ enabled_file = <<>>
    /\ routes = <<>> /\ ping_file = <<>> /\ refresh_file = <<>>
    /\ dirs = <<>> /\ req = NoRequest /\ resp = Response("NONE")
    /\ last = <<>> /\ written = None
    /\ arg = <<>> /\ out = [rel |-> None, seg |-> None]

NextHub ==
    \/ InitLogState
    \/ (published < MaxHubLines /\ LogLine)
    \/ LogSnapshot
    \/ SseLogs
    \/ StreamNext

SpecHub == InitHub /\ [][NextHub]_vars

(***************************************************************************)
(* Claims about the life of the log state.                                 *)
(***************************************************************************)
\* C13: calling any LogHub operation (log_line, log_snapshot or subscribe)
\* before init_log_state has run is a fatal error: the call aborts instead
\* of returning normally.
C13_FatalBeforeInit ==
    (call.op \in {"log_line", "log_snapshot", "subscribe_logs"} /\ ~call.ready)
    => call.aborted

\* C14: the log state is a single instance for the life of the process:
\* once init_log_state has run, a further init_log_state leaves the history
\* and the subscribers in place, and every log_line, log_snapshot and
\* subscribe afterwards operates on that same instance.
C14_SingleInstance ==
    [][log_init =>
          /\ log_init'
          /\ InitLogState =>
                 (buffer' = buffer /\ subs' = subs /\ feed' = feed)
          /\ LogLine =>
                 /\ buffer' = log_line_buffer(buffer, published')
                 /\ subs' = broadcast_send(subs, published')
          /\ LogSnapshot => call'.result = buffer
          /\ SseLogs =>
                 (buffer' = buffer /\ \A r \in DOMAIN subs : subs'[r] = subs[r])
      ]_vars

\* init_log_state has been called again with lines in the history and a
\* subscriber with unread lines, and they are still there
C14_Witness ==
    /\ call.op = "init_log_state"
    /\ call.ready
    /\ buffer # <<>>
    /\ \E r \in DOMAIN subs : subs[r] # <<>>

(***************************************************************************)
(* Claims about the live feed.                                             *)
(***************************************************************************)
\* the lines lo+1 .. hi in publish order
LinesFromTo(lo, hi) == [i \in 1..(hi - lo) |-> lo + i]

\* the line after which the unread lines of a receiver begin
FeedBase(r) == IF feed[r].count = 0 THEN feed[r].joined ELSE feed[r].got

\* C11: a subscriber created before a line is published receives that line
\* on its live feed as long as it has not fallen behind the channel
\* capacity; a subscriber created after the line was published never
\* receives it on the live feed, even though the line is in log_snapshot.
C11_LiveFeedOnly ==
    \A r \in DOMAIN subs :
        /\ \A i \in 1..Len(subs[r]) : subs[r][i] > feed[r].joined
        /\ feed[r].count > 0 => feed[r].got > feed[r].joined
        /\ feed[r].lost = 0 =>
               /\ feed[r].count = FeedBase(r) - feed[r].joined
               /\ subs[r] = LinesFromTo(FeedBase(r), published)

\* a receiver that subscribed after the first line has been given a later
\* line, and the first line is in log_snapshot
C11_Witness ==
    \E r \in DOMAIN subs :
        /\ feed[r].joined >= 1
        /\ feed[r].count >= 1
        /\ feed[r].lost = 0
        /\ log_snapshot # <<>> /\ log_snapshot[1] = 1

\* C12: log_line completes without waiting for any subscriber, however many
\* unread lines the subscribers have; a subscriber with more than the
\* channel capacity of unread lines loses the oldest ones and keeps
\* receiving later lines in publish order, and the publisher is never
\* stalled or failed by it.
C12_PublisherNeverWaits ==
    /\ published < MaxPublish => ENABLED LogLine
    /\ call.op = "log_line" => ~call.aborted
    /\ \A r \in DOMAIN subs :
           /\ Len(subs[r]) <= ChannelCap
           /\ subs[r] = LinesFromTo(published - Len(subs[r]), published)
           /\ (feed[r].count > 0 /\ subs[r] # <<>>) => feed[r].got < Head(subs[r])
           /\ feed[r].lost + feed[r].count + Len(subs[r])
                  = published - feed[r].joined

\* a receiver has lost unread lines, its stream has given it a line
\* published after them, and log_line has been called since
C12_Witness ==
    /\ call.op = "log_line"
    /\ \E r \in DOMAIN subs :
           /\ feed[r].lost >= 1
           /\ feed[r].count >= 1
           /\ feed[r].got > feed[r].joined + feed[r].lost

(***************************************************************************)
(* SpecResolve: requests under /api/ against a configuration changed by    *)
(* set_ping_endpoint, set_refresh_endpoint and set_route_mapping.          *)
(***************************************************************************)
EndpointInputs ==
    {None,
     Some(ApiPrefix \o <<"x">>),                     \* "/api/x"
     Some(ApiPrefix \o <<"p", " ">>),                \* "/api/p "
     Some(ApiPrefix \o <<".", ".", " ">>),           \* "/api/.. "
     Some(<<"/", "x">>),                             \* "/x"
     Some(ApiPrefix \o <<".", ".", "/", "x">>)}      \* "/api/../x"

ResolveRouteInputs ==
    {RouteInput(Some(m), Some(ApiPrefix \o <<"x">>), Some(f)) :
        m \in {GET, POST}, f \in {<<"f">>, <<"g">>}}
    \cup {RouteInput(Some(GET), Some(DefaultPing), Some(<<"g">>))}

\* what the router's /api/*path hands to api_get and api_post: the wildcard
\* never matches the empty string
ApiPaths ==
    {<<"x">>, <<"p">>, <<"p", " ">>,
     SubSeq(DefaultPing, Len(ApiPrefix) + 1, Len(DefaultPing)),
     SubSeq(DefaultRefresh, Len(ApiPrefix) + 1, Len(DefaultRefresh))}

ReadOutcomes == {"ok", "not_found", "error"}

\* POST /config/ping-endpoint
SetPingEndpoint ==
    \E path \in EndpointInputs, io_ok \in BOOLEAN :
        \E r \in {set_endpoint_run(ping_file, path, io_ok)} :
            /\ req' = [handler |-> "set_ping_endpoint", path |-> path]
            /\ resp' = r.resp
            /\ ping_file' = r.text
            /\ UNCHANGED <<routes, refresh_file, dirs, last, written,
                           guardVars, logVars>>

\* POST /config/refresh-endpoint
SetRefreshEndpoint ==
    \E path \in EndpointInputs, io_ok \in BOOLEAN :
        \E r \in {set_endpoint_run(refresh_file, path, io_ok)} :
            /\ req' = [handler |-> "set_refresh_endpoint", path |-> path]
            /\ resp' = r.resp
            /\ refresh_file' = r.text
            /\ UNCHANGED <<routes, ping_file, dirs, last, written,
                           guardVars, logVars>>

\* GET /api/*path
ApiGet ==
    \E ping \in {read_ping_endpoint(ping_file)}, table \in {read_route_mappings(routes)},
       path \in ApiPaths, read \in ReadOutcomes :
        /\ req' = [handler |-> "api_get", path |-> path]
        /\ resp' = api_get(ping, table, path, read)
        /\ UNCHANGED <<configVars, dirs, last, written, guardVars, logVars>>

\* POST /api/*path
ApiPost ==
    \E refresh \in {read_refresh_endpoint(refresh_file)},
       table \in {read_route_mappings(routes)},
       path \in ApiPaths, read \in ReadOutcomes :
        /\ req' = [handler |-> "api_post", path |-> path]
        /\ resp' = api_post(refresh, table, path, read)
        /\ UNCHANGED <<configVars, dirs, last, written, guardVars, logVars>>

NextResolve ==
    \/ SetRouteMapping(ResolveRouteInputs)
    \/ SetPingEndpoint
    \/ SetRefreshEndpoint
    \/ ApiGet
    \/ ApiPost

SpecResolve == Init /\ [][NextResolve]_vars

(***************************************************************************)
(* Claims about resolution.                                                *)
(***************************************************************************)
Requested == ApiPrefix \o req.path

IsGet == req.handler = "api_get"
IsPost == req.handler = "api_post"

\* the request is for the virtual endpoint of its method
ForPing == IsGet /\ Requested = read_ping_endpoint(ping_file)
ForRefresh == IsPost /\ Requested = read_refresh_endpoint(refresh_file)

\* the table entries with the request's method and path
Matching ==
    LET table == read_route_mappings(routes)
    IN  {i \in 1..Len(table) :
            /\ table[i].method = (IF IsGet THEN GET ELSE POST)
            /\ table[i].path = Requested}

\* C3: a GET for the currently configured ping endpoint (the built-in one
\* when none is configured) is answered by the ping response, and a POST for
\* the currently configured refresh endpoint by the refresh-token response,
\* whatever the route table holds, a mapping for that method and path
\* included.
C3_VirtualEndpointsFirst ==
    /\ ForPing => (resp.status = "OK" /\ resp.body = "ping" /\ resp.served = None)
    /\ ForRefresh =>
           (resp.status = "OK" /\ resp.body = "refresh" /\ resp.served = None)

\* the ping endpoint has been answered while the table maps its path for GET
C3_Witness ==
    /\ ForPing
    /\ Matching # {}
    /\ resp.body = "ping"

\* C4: a request under /api/ that is not for the virtual endpoint of its
\* method is served the file of the table entry with exactly its method and
\* path, and is answered NOT_FOUND when no entry matches; an entry stored
\* for GET never answers a POST, nor one stored for POST a GET.
C4_ExactMatchLookup ==
    ((IsGet \/ IsPost) /\ ~ForPing /\ ~ForRefresh)
    => IF Matching = {}
       THEN resp.status = "NOT_FOUND" /\ resp.served = None
       ELSE \E i \in Matching :
                resp.served = Some(read_route_mappings(routes)[i].file)

\* a POST has been served the POST entry's file while the table holds a GET
\* entry with another file for the same path
C4_Witness ==
    /\ IsPost /\ ~ForRefresh
    /\ Matching # {}
    /\ resp.status = "OK" /\ resp.body = "file"
    /\ \E i \in 1..Len(read_route_mappings(routes)) :
           /\ read_route_mappings(routes)[i].method = GET
           /\ read_route_mappings(routes)[i].path = Requested
           /\ Some(read_route_mappings(routes)[i].file) # resp.served

(***************************************************************************)
(* SpecEdited: requests under /api/ against a routes.txt that was edited   *)
(* by hand.  The text is any sequence of at most MaxEditedLines of the     *)
(* lines below, each ended by a newline.                                   *)
(***************************************************************************)
EditedLines ==
    {
     \* "GET /api/x f"
     <<"G", "E", "T", " ", "/", "a", "p", "i", "/", "x", " ", "f">>,
     \* "get /api/x a/./b"
     <<"g", "e", "t", " ", "/", "a", "p", "i", "/", "x", " ", "a", "/",
       ".", "/", "b">>,
     \* "# GET /api/x g"
     <<"#", " ", "G", "E", "T", " ", "/", "a", "p", "i", "/", "x", " ",
       "g">>,
     \* "GET /api/x ../s"
     <<"G", "E", "T", " ", "/", "a", "p", "i", "/", "x", " ", ".", ".",
       "/", "s">>,
     \* "POST /api/x /etc"
     <<"P", "O", "S", "T", " ", "/", "a", "p", "i", "/", "x", " ", "/",
       "e", "t", "c">>,
     \* "POST /api/../x f"
     <<"P", "O", "S", "T", " ", "/", "a", "p", "i", "/", ".", ".", "/",
       "x", " ", "f">>,
     \* "PUT /api/x f"
     <<"P", "U", "T", " ", "/", "a", "p", "i", "/", "x", " ", "f">>,
     \* "POST /api/x ./f"
     <<"P", "O", "S", "T", " ", "/", "a", "p", "i", "/", "x", " ", ".",
       "/", "f">>,
     \* "GET /api/x"
     <<"G", "E", "T", " ", "/", "a", "p", "i", "/", "x">>,
     \* "POST /api/p d/f extra"
     <<"P", "O", "S", "T", " ", "/", "a", "p", "i", "/", "p", " ", "d",
       "/", "f", " ", "e", "x", "t", "r", "a">>,
     \* "GET /x f"
     <<"G", "E", "T", " ", "/", "x", " ", "f">>,
     \* "  POST  /api/x  g "
     <<" ", " ", "P", "O", "S", "T", " ", " ", "/", "a", "p", "i", "/",
       "x", " ", " ", "g", " ">>}

RECURSIVE TextsOfLines(_)
TextsOfLines(n) ==
    IF n = 0 THEN {<<>>}
    ELSE {t \o l \o <<"\n">> : t \in TextsOfLines(n - 1), l \in EditedLines}

EditedTexts == UNION {TextsOfLines(n) : n \in 0..MaxEditedLines}

InitEdited ==
    /\ routes \in EditedTexts
    /\ ping_file = <<>> /\ refresh_file = <<>>
    /\ dirs = <<>> /\ req = NoRequest /\ resp = Response("NONE")
    /\ last = <<>> /\ written = None
    /\ arg = <<>> /\ out = [rel |-> None, seg |-> None]
    /\ log_init = TRUE /\ buffer = <<>> /\ subs = <<>> /\ published = 0
    /\ feed = <<>> /\ call = NoCall
    /\ ignore_file = <<>> /\ enabled_file = <<>>

NextEdited == ApiGet \/ ApiPost

SpecEdited == InitEdited /\ [][NextEdited]_vars

(***************************************************************************)
(* Claims about what is read from routes.txt.                              *)
(***************************************************************************)
\* the pieces of a path between its separators
Pieces(path) == Split(path, {"/"})

\* no piece of the path is a parent reference
NoParentPiece(path) ==
    \A i \in 1..Len(Pieces(path)) : Pieces(path)[i] # <<".", ".">>

\* a file with no root, no parent reference and no current-dir component
\* (a "." between two separators is not a component of the path: it names
\* the directory before it)
FileHasOnlyNames(file) ==
    /\ file # <<>>
    /\ file[1] # "/"
    /\ NoParentPiece(file)
    /\ Pieces(file)[1] # <<".">>

\* the pieces of all the fragments joined to the content root, in order
RECURSIVE JoinedPieces(_)
JoinedPieces(frags) ==
    IF frags = <<>> THEN <<>>
    ELSE Pieces(Head(frags)) \o JoinedPieces(Tail(frags))

\* the content root joined with the fragments names a place inside the
\* content root: no fragment is rooted (PathBuf::join would replace the
\* root by it) and, walking the pieces, the parent references never
\* outnumber the names before them
InsideContentRoot(frags) ==
    LET pieces == JoinedPieces(frags)
        ups(k) == Cardinality({i \in 1..k : pieces[i] = <<".", ".">>})
        names(k) == Cardinality({i \in 1..k :
                        pieces[i] \notin {<<>>, <<".">>, <<".", ".">>}})
    IN  /\ \A i \in 1..Len(frags) : frags[i] = <<>> \/ frags[i][1] # "/"
        /\ \A k \in 1..Len(pieces) : ups(k) <= names(k)

\* C5: whatever text routes.txt holds, every entry returned by
\* read_route_mappings has method GET or POST, a path that starts with
\* /api/ and has no traversal component, and a file with no root, parent
\* reference or current-dir component; so every file name that api_get and
\* api_post hand to serve_mapped_json is traversal-safe.
C5_EditedTableIsSafe ==
    LET table == read_route_mappings(routes)
    IN  /\ \A i \in 1..Len(table) :
               /\ table[i].method \in {GET, POST}
               /\ StartsWith(table[i].path, ApiPrefix)
               /\ NoParentPiece(table[i].path)
               /\ FileHasOnlyNames(table[i].file)
        /\ IsSome(resp.served) =>
               /\ FileHasOnlyNames(Unwrap(resp.served))
               /\ InsideContentRoot(<<Unwrap(resp.served)>>)

\* a file has been served from a text that also holds a line for the same
\* path whose file has a parent reference
C5_Witness ==
    LET words == [i \in 1..Len(Lines(routes)) |-> SplitWhitespace(Lines(routes)[i])]
    IN  /\ IsSome(resp.served)
        /\ \E i \in 1..Len(words) :
               /\ Len(words[i]) >= 3
               /\ words[i][2] = Requested
               /\ ~NoParentPiece(words[i][3])

(***************************************************************************)
(* The content root json/.  dirs maps the name of each subdirectory to the *)
(* set of the names of its files; fs records, in order, the paths a        *)
(* handler gave to the filesystem, each as the fragments it joined to the  *)
(* content root.                                                           *)
(***************************************************************************)
FsOp(op, frags) == [op |-> op, frags |-> frags]

\* Option::unwrap_or_default of a form field
UnwrapOrDefault(o) == IF IsSome(o) THEN Unwrap(o) ELSE <<>>

\* the file json/<frags...> exists
FileExists(tree, frags) ==
    LET parts == SelectSeq(JoinedPieces(frags),
                           LAMBDA p : p # <<>> /\ p # <<".">>)
    IN  /\ Len(parts) = 2
        /\ parts[1] \in DOMAIN tree
        /\ parts[2] \in tree[parts[1]]

\* what fs::read of that file can give
ReadOutcomesOf(tree, frags) ==
    IF FileExists(tree, frags) THEN {"ok", "error"} ELSE {"not_found", "error"}

\* the answer of a handler that read a file
FileResponse(read) ==
    [Response(CASE read = "ok" -> "OK"
                [] read = "not_found" -> "NOT_FOUND"
                [] OTHER -> "INTERNAL_SERVER_ERROR")
        EXCEPT !.body = IF read = "ok" THEN "file" ELSE "none"]

\* get_json without the checks of the path
get_json_NoPathCheck(subdir, path, read) ==
    IF ~is_safe_segment(subdir) THEN BAD_REQUEST
    ELSE [FileResponse(read) EXCEPT !.fs = <<FsOp("read", <<subdir, path>>)>>]

\* get_json
get_json(subdir, path, read) ==
    IF ~is_safe_segment(subdir) \/ path = <<>> \/ ~is_safe_rel_path(path)
    THEN BAD_REQUEST
    ELSE [FileResponse(read) EXCEPT !.fs = <<FsOp("read", <<subdir, path>>)>>]

\* subdir_index: the page lists what read_dir gives, or nothing if it fails
subdir_index(subdir) ==
    IF ~is_safe_segment(subdir) THEN BAD_REQUEST
    ELSE [Response("OK") EXCEPT !.body = "page",
                                !.fs = <<FsOp("read_dir", <<subdir>>)>>]

\* the loop of upload_files over the fields: the names it writes, in order
RECURSIVE UploadNames(_)
UploadNames(fields) ==
    IF fields = <<>> THEN <<>>
    ELSE IF ~IsSome(Head(fields)) THEN UploadNames(Tail(fields))
    ELSE IF ~is_safe_segment(Unwrap(Head(fields))) THEN UploadNames(Tail(fields))
    ELSE <<Unwrap(Head(fields))>> \o UploadNames(Tail(fields))

\* upload_files: fields holds the file_name of each field; mk_ok and wr_ok
\* are whether create_dir_all and the writes succeed
upload_files(tree, subdir, fields, mk_ok, wr_ok) ==
    LET mkdir == FsOp("create_dir_all", <<subdir>>)
        names == UploadNames(fields)
        writes == [i \in 1..Len(names) |-> FsOp("write", <<subdir, names[i]>>)]
        made == IF subdir \in DOMAIN tree THEN tree ELSE (subdir :> {}) @@ tree
        saved_any == wr_ok /\ names # <<>>
        filled == IF wr_ok
                  THEN [made EXCEPT ![subdir] = made[subdir] \cup Range(names)]
                  ELSE made
    IN  IF ~is_safe_segment(subdir) THEN [resp |-> BAD_REQUEST, dirs |-> tree]
        ELSE IF ~mk_ok
             THEN [resp |-> [INTERNAL_SERVER_ERROR EXCEPT !.fs = <<mkdir>>],
                   dirs |-> tree]
        ELSE IF ~saved_any
             THEN [resp |-> [BAD_REQUEST EXCEPT !.fs = <<mkdir>> \o writes],
                   dirs |-> filled]
        ELSE [resp |-> [REDIRECT EXCEPT !.fs = <<mkdir>> \o writes],
              dirs |-> filled]

\* create_subdir
create_subdir(tree, field, io_ok) ==
    LET name == UnwrapOrDefault(field)
        mkdir == FsOp("create_dir_all", <<name>>)
    IN  IF ~is_safe_segment(name) THEN [resp |-> BAD_REQUEST, dirs |-> tree]
        ELSE IF ~io_ok
             THEN [resp |-> [INTERNAL_SERVER_ERROR EXCEPT !.fs = <<mkdir>>],
                   dirs |-> tree]
        ELSE [resp |-> [REDIRECT EXCEPT !.fs = <<mkdir>>],
              dirs |-> IF name \in DOMAIN tree THEN tree
                       ELSE (name :> {}) @@ tree]

\* delete_subdir: remove_dir_all fails on a directory that is not there
delete_subdir(tree, field, io_ok) ==
    LET name == UnwrapOrDefault(field)
        rmdir == FsOp("remove_dir_all", <<name>>)
    IN  IF ~is_safe_segment(name) THEN [resp |-> BAD_REQUEST, dirs |-> tree]
        ELSE IF ~io_ok \/ name \notin DOMAIN tree
             THEN [resp |-> [INTERNAL_SERVER_ERROR EXCEPT !.fs = <<rmdir>>],
                   dirs |-> tree]
        ELSE [resp |-> [REDIRECT EXCEPT !.fs = <<rmdir>>],
              dirs |-> [d \in DOMAIN tree \ {name} |-> tree[d]]]

\* rename_subdir: rename fails when the source is not there and when the
\* target is a directory that is not empty
rename_subdir(tree, from_field, to_field, io_ok) ==
    LET from == UnwrapOrDefault(from_field)
        to == UnwrapOrDefault(to_field)
        rename == <<FsOp("rename_from", <<from>>), FsOp("rename_to", <<to>>)>>
        possible == /\ from \in DOMAIN tree
                    /\ (to \notin DOMAIN tree \/ to = from \/ tree[to] = {})
    IN  IF ~is_safe_segment(from) \/ ~is_safe_segment(to)
        THEN [resp |-> BAD_REQUEST, dirs |-> tree]
        ELSE IF ~io_ok \/ ~possible
             THEN [resp |-> [INTERNAL_SERVER_ERROR EXCEPT !.fs = rename],
                   dirs |-> tree]
        ELSE [resp |-> [REDIRECT EXCEPT !.fs = rename],
              dirs |-> [d \in (DOMAIN tree \ {from}) \cup {to} |->
                           IF d = to THEN tree[from] ELSE tree[d]]]

(***************************************************************************)
(* SpecFs: the handlers that touch the content root, from an empty content *)
(* root and a routes.txt with one mapping to a file of the content root    *)
(* beside a hand-edited line that points out of it.                        *)
(***************************************************************************)
\* what the router's :subdir hands to a handler: one path segment, percent
\* decoded, never empty
SubdirParams ==
    {<<"d">>, <<".", ".">>, <<"a", "/", "b">>, <<"a", "\\", "b">>}

\* what the router's *path hands to get_json: percent decoded, never empty
PathParams ==
    {<<"f">>, <<"s", "/", "f">>, <<".", ".", "/", "f">>, <<"/", "f">>,
     <<"s", "/", ".", ".", "/", ".", ".", "/", "f">>}

\* the name fields of the forms
NameFields ==
    {None, Some(<<"d">>), Some(<<"e">>), Some(<<".", ".">>),
     Some(<<"d", "/", "e">>)}

\* the file names of the fields of an upload
UploadFields ==
    {<<Some(<<"f">>)>>,
     <<None>>,
     <<Some(<<".", ".", "/", "f">>)>>,
     <<Some(<<".", ".", "/", "f">>), Some(<<"g">>)>>,
     <<Some(<<"f">>), Some(<<"/", "g">>)>>}

FsRoutes ==
    <<"G", "E", "T", " ", "/", "a", "p", "i", "/", "x", " ", "d", "/", "f", "\n",
      "G", "E", "T", " ", "/", "a", "p", "i", "/", "p", " ", ".", ".", "/", "s", "\n">>

InitFs ==
    /\ routes = FsRoutes
    /\ ping_file = <<>> /\ refresh_file = <<>>
    /\ dirs = <<>> /\ req = NoRequest /\ resp = Response("NONE")
    /\ last = <<>> /\ written = None
    /\ arg = <<>> /\ out = [rel |-> None, seg |-> None]
    /\ log_init = TRUE /\ buffer = <<>> /\ subs = <<>> /\ published = 0
    /\ feed = <<>> /\ call = NoCall
    /\ ignore_file = <<>> /\ enabled_file = <<>>

fsUnchanged == <<configVars, last, written, guardVars, logVars>>

\* GET /json/:subdir/*path
GetJson ==
    \E subdir \in SubdirParams, path \in PathParams :
        \E read \in ReadOutcomesOf(dirs, <<subdir, path>>) :
            /\ req' = [handler |-> "get_json", names |-> <<subdir, path>>]
            /\ resp' = get_json(subdir, path, read)
            /\ UNCHANGED <<dirs, fsUnchanged>>

\* GET /json/:subdir
SubdirIndex ==
    \E subdir \in SubdirParams :
        /\ req' = [handler |-> "subdir_index", names |-> <<subdir>>]
        /\ resp' = subdir_index(subdir)
        /\ UNCHANGED <<dirs, fsUnchanged>>

\* POST /json/:subdir
UploadFiles ==
    \E subdir \in SubdirParams, fields \in UploadFields, mk_ok, wr_ok \in BOOLEAN :
        \E r \in {upload_files(dirs, subdir, fields, mk_ok, wr_ok)} :
            /\ req' = [handler |-> "upload_files",
                       names |-> <<subdir>> \o
                                 [i \in 1..Len(fields) |-> UnwrapOrDefault(fields[i])]]
            /\ resp' = r.resp
            /\ dirs' = r.dirs
            /\ UNCHANGED fsUnchanged

\* POST /json/create
CreateSubdir ==
    \E name \in NameFields, io_ok \in BOOLEAN :
        \E r \in {create_subdir(dirs, name, io_ok)} :
            /\ req' = [handler |-> "create_subdir",
                       names |-> <<UnwrapOrDefault(name)>>]
            /\ resp' = r.resp
            /\ dirs' = r.dirs
            /\ UNCHANGED fsUnchanged

\* POST /json/delete
DeleteSubdir ==
    \E name \in NameFields, io_ok \in BOOLEAN :
        \E r \in {delete_subdir(dirs, name, io_ok)} :
            /\ req' = [handler |-> "delete_subdir",
                       names |-> <<UnwrapOrDefault(name)>>]
            /\ resp' = r.resp
            /\ dirs' = r.dirs
            /\ UNCHANGED fsUnchanged

\* POST /json/rename
RenameSubdir ==
    \E from \in NameFields, to \in NameFields, io_ok \in BOOLEAN :
        \E r \in {rename_subdir(dirs, from, to, io_ok)} :
            /\ req' = [handler |-> "rename_subdir",
                       names |-> <<UnwrapOrDefault(from), UnwrapOrDefault(to)>>]
            /\ resp' = r.resp
            /\ dirs' = r.dirs
            /\ UNCHANGED fsUnchanged

\* GET /api/*path, the mapped file being read from the content root
ApiGetMapped ==
    \E ping \in {read_ping_endpoint(ping_file)}, table \in {read_route_mappings(routes)},
       path \in {<<"x">>, <<"p">>} :
        \E file \in {find_route_mapping(table, GET, ApiPrefix \o path)} :
            \E read \in (IF IsSome(file) THEN ReadOutcomesOf(dirs, <<Unwrap(file)>>)
                         ELSE {"not_found"}) :
                /\ req' = [handler |-> "api_get", path |-> path, names |-> <<>>]
                /\ resp' = api_get(ping, table, path, read)
                /\ UNCHANGED <<dirs, fsUnchanged>>

NextFs ==
    \/ GetJson
    \/ SubdirIndex
    \/ UploadFiles
    \/ CreateSubdir
    \/ DeleteSubdir
    \/ RenameSubdir
    \/ ApiGetMapped

SpecFs == InitFs /\ [][NextFs]_vars

(***************************************************************************)
(* Claims about the filesystem accesses.                                   *)
(***************************************************************************)
\* C6: no handler reaches a filesystem read, write, create, rename or
\* delete with a supplied path fragment that has not passed is_safe_segment
\* or is_safe_rel_path: get_json, subdir_index, upload_files (folder and
\* each file name), create_subdir, delete_subdir, rename_subdir (both names)
\* and the mapped-file read check first and touch nothing outside the
\* content root.
C6_GuardBeforeFilesystem ==
    /\ \A i \in 1..Len(resp.fs) :
           /\ \A j \in 1..Len(resp.fs[i].frags) :
                  \/ is_safe_segment(resp.fs[i].frags[j])
                  \/ is_safe_rel_path(resp.fs[i].frags[j])
           /\ InsideContentRoot(resp.fs[i].frags)
    /\ \A d \in DOMAIN dirs :
           /\ InsideContentRoot(<<d>>) /\ Len(Pieces(d)) = 1
           /\ \A f \in dirs[d] : InsideContentRoot(<<d, f>>) /\ Len(Pieces(f)) = 1

\* an upload with a file name that points out of the folder beside a plain
\* one has created the folder and written the plain one alone
C6_Witness ==
    /\ req.handler = "upload_files"
    /\ \E j \in 1..Len(req.names) : ~InsideContentRoot(<<req.names[j]>>)
    /\ resp.status = "REDIRECT"
    /\ Len(resp.fs) = 2
    /\ resp.fs[2].op = "write"

(***************************************************************************)
(* ConfigStore: the ignore patterns in log_ignore.txt.                     *)
(***************************************************************************)
\* str::trim_end_matches(pattern): strips the pattern as often as it repeats
RECURSIVE TrimEndMatches(_, _)
TrimEndMatches(s, p) ==
    IF p # <<>> /\ EndsWith(s, p)
    THEN TrimEndMatches(SubSeq(s, 1, Len(s) - Len(p)), p)
    ELSE s

\* [String]::join(sep)
RECURSIVE Join(_, _)
Join(strings, sep) ==
    IF strings = <<>> THEN <<>>
    ELSE IF Len(strings) = 1 THEN strings[1]
    ELSE strings[1] \o sep \o Join(Tail(strings), sep)

Star == <<"/", "*">>                                     \* "/*"

\* normalize_log_pattern: Some(pattern), or None when the line is dropped
normalize_log_pattern(input) ==
    LET raw == Trim(input)
        normalized == IF StartsWith(raw, <<"/">>) THEN raw ELSE <<"/">> \o raw
    IN  IF raw = <<>> THEN None
        ELSE IF Contains(normalized, "\\") THEN None
        ELSE IF Contains(normalized, "*") /\ ~EndsWith(normalized, Star) THEN None
        ELSE Some(normalized)

\* the patterns that the lines yield, in order (filter_map)
RECURSIVE NormalizedLines(_)
NormalizedLines(lines) ==
    IF lines = <<>> THEN <<>>
    ELSE normalize_log_pattern(Head(lines)) \o NormalizedLines(Tail(lines))

DefaultPatterns == << <<"/">>, <<"/", "e", "v", "e", "n", "t", "s">> >>

\* read_log_ignore_patterns reading the file alone
read_log_ignore_patterns_FileOnly(text) == NormalizedLines(Lines(text))

\* read_log_ignore_patterns, of the text of log_ignore.txt
read_log_ignore_patterns(text) == DefaultPatterns \o NormalizedLines(Lines(text))

\* the body of the loop of is_log_ignored for one pattern
PatternIgnores(pattern, path) ==
    IF EndsWith(pattern, Star)
    THEN LET prefix == SubSeq(pattern, 1, Len(pattern) - 1)
             base == TrimEndMatches(prefix, <<"/">>)
         IN  path = base \/ path = prefix \/ StartsWith(path, prefix)
    ELSE path = pattern

\* is_log_ignored, patterns being what its read_log_ignore_patterns() returns
is_log_ignored(patterns, path) ==
    \E i \in 1..Len(patterns) : PatternIgnores(patterns[i], path)

(***************************************************************************)
(* SpecPattern: normalize_log_pattern applied to a line.                   *)
(***************************************************************************)
PatternAlphabet == {"a", "/", "*", "\\", " "}

InitPattern ==
    /\ arg \in StringsUpTo(PatternAlphabet, MaxLineLen)
    /\ out = None
    /\ routes = <<>> /\ ping_file = <<>> /\ refresh_file = <<>>
    /\ dirs = <<>> /\ req = NoRequest /\ resp = Response("NONE")
    /\ last = <<>> /\ written = None
    /\ log_init = TRUE /\ buffer = <<>> /\ subs = <<>> /\ published = 0
    /\ feed = <<>> /\ call = NoCall
    /\ ignore_file = <<>> /\ enabled_file = <<>>

harnessUnchanged == <<configVars, dirs, req, resp, last, written, arg, logVars>>

CallNormalizeLogPattern ==
    /\ out = None
    /\ out' = Some(normalize_log_pattern(arg))
    /\ UNCHANGED harnessUnchanged

NextPattern == CallNormalizeLogPattern

SpecPattern == InitPattern /\ [][NextPattern]_vars

\* a '*' of the pattern that is not the last character of a final "/*"
StrayStar(pattern) ==
    \E i \in 1..Len(pattern) :
        /\ pattern[i] = "*"
        /\ ~(i = Len(pattern) /\ i >= 2 /\ pattern[i - 1] = "/")

\* the line, trimmed, with the leading '/' added when it is missing
WithLeadingSlash(line) ==
    IF StartsWith(Trim(line), <<"/">>) THEN Trim(line) ELSE <<"/">> \o Trim(line)

\* C19: normalize_log_pattern returns nothing for every line that is
\* blank, contains a backslash, or contains a '*' anywhere other than as
\* the final two characters "/*"; every other line is kept, with a leading
\* '/' added when missing.
C19_DropsInvalidLines ==
    IsSome(out) =>
        Unwrap(out) = IF \/ Trim(arg) = <<>>
                         \/ Contains(arg, "\\")
                         \/ StrayStar(WithLeadingSlash(arg))
                      THEN None
                      ELSE Some(WithLeadingSlash(arg))

(***************************************************************************)
(* SpecIgnored: is_log_ignored applied to a request path, log_ignore.txt   *)
(* holding at most MaxIgnoreLines of the lines below.                      *)
(***************************************************************************)
IgnoreLines ==
    {<<"/", "a", "/", "*">>,                 \* "/a/*"
     <<"/", "a", "/", "/", "*">>,            \* "/a//*"
     <<"/", "b">>,                           \* "/b"
     <<"c">>,                                \* "c"
     <<"/", "*">>,                           \* "/*"
     <<"/", "a", "\\", "b">>}                \* "/a\b"

RECURSIVE IgnoreTexts(_)
IgnoreTexts(n) ==
    IF n = 0 THEN {<<>>}
    ELSE IgnoreTexts(n - 1)
         \cup {IF t = <<>> THEN l ELSE t \o <<"\n">> \o l :
                  t \in IgnoreTexts(n - 1), l \in IgnoreLines}

RequestPaths ==
    {<<"/">>,
     <<"/", "e", "v", "e", "n", "t", "s">>,  \* "/events"
     <<"/", "a">>,                           \* "/a"
     <<"/", "a", "/">>,                      \* "/a/"
     <<"/", "a", "/", "b">>,                 \* "/a/b"
     <<"/", "a", "x">>,                      \* "/ax"
     <<"/", "b">>,                           \* "/b"
     <<"/", "b", "/", "a">>,                 \* "/b/a"
     <<"/", "c">>}                           \* "/c"

InitIgnored ==
    /\ arg \in [patterns : IgnoreTexts(MaxIgnoreLines), path : RequestPaths]
    /\ out = None
    /\ routes = <<>> /\ ping_file = <<>> /\ refresh_file = <<>>
    /\ dirs = <<>> /\ req = NoRequest /\ resp = Response("NONE")
    /\ last = <<>> /\ written = None
    /\ log_init = TRUE /\ buffer = <<>> /\ subs = <<>> /\ published = 0
    /\ feed = <<>> /\ call = NoCall
    /\ ignore_file = <<>> /\ enabled_file = <<>>

CallIsLogIgnored ==
    /\ out = None
    /\ out' = Some(is_log_ignored(read_log_ignore_patterns(arg.patterns), arg.path))
    /\ UNCHANGED harnessUnchanged

NextIgnored == CallIsLogIgnored

SpecIgnored == InitIgnored /\ [][NextIgnored]_vars

\* the pattern matches the path: it equals the path, or it is P/* and the
\* path is P, is P/ or begins with P/
Matches(pattern, path) ==
    \/ pattern = path
    \/ /\ EndsWith(pattern, Star)
       /\ LET P == SubSeq(pattern, 1, Len(pattern) - 2)
          IN  \/ path = P
              \/ path = P \o <<"/">>
              \/ StartsWith(path, P \o <<"/">>)

\* some active pattern matches the path
Matched(text, path) ==
    \E i \in 1..Len(read_log_ignore_patterns(text)) :
        Matches(read_log_ignore_patterns(text)[i], path)

\* C16: is_log_ignored(path) is true exactly when some active pattern
\* equals path, or some active pattern P/* has path equal to P, equal to
\* P/, or beginning with P/; a path that merely shares leading characters
\* with P is not ignored.
C16_IgnoredIffMatched ==
    IsSome(out) => Unwrap(out) = Matched(arg.patterns, arg.path)

(***************************************************************************)
(* ConfigStore: the logging toggle in log_enabled.txt, and the handlers    *)
(* that write the toggle and the ignore patterns.                          *)
(***************************************************************************)
\* char::to_lowercase (ASCII)
LowerChar(c) ==
    IF \E k \in 1..Len(UpperLetters) : UpperLetters[k] = c
    THEN LowerLetters[CHOOSE k \in 1..Len(UpperLetters) : UpperLetters[k] = c]
    ELSE c

\* str::to_lowercase
ToLower(s) == [i \in 1..Len(s) |-> LowerChar(s[i])]

ON == <<"o", "n">>
OFF == <<"o", "f", "f">>

\* read_log_enabled, of the text of log_enabled.txt
read_log_enabled(text) ==
    LET trimmed == ToLower(Trim(text))
    IN  \/ trimmed = <<>>
        \/ trimmed = ON
        \/ trimmed = <<"t", "r", "u", "e">>
        \/ trimmed = <<"1">>

\* set_log_toggle not looking at the result of create_dir_all and write
set_log_toggle_run_IgnoreIoError(text, value, io_ok) ==
    IF ~IsSome(value) THEN [resp |-> BAD_REQUEST, text |-> text]
    ELSE [resp |-> REDIRECT, text |-> text]

\* set_log_toggle: the response and the new text of log_enabled.txt
set_log_toggle_run(text, value, io_ok) ==
    LET enabled == ToLower(Trim(Unwrap(value))) = ON
    IN  IF ~IsSome(value) THEN [resp |-> BAD_REQUEST, text |-> text]
        ELSE IF ~io_ok THEN [resp |-> INTERNAL_SERVER_ERROR, text |-> text]
        ELSE [resp |-> REDIRECT, text |-> IF enabled THEN ON ELSE OFF]

\* set_log_ignore: the response and the new text of log_ignore.txt
set_log_ignore_run(text, patterns, io_ok) ==
    LET lines == NormalizedLines(Lines(Unwrap(patterns)))
    IN  IF ~IsSome(patterns) THEN [resp |-> BAD_REQUEST, text |-> text]
        ELSE IF ~io_ok THEN [resp |-> INTERNAL_SERVER_ERROR, text |-> text]
        ELSE [resp |-> REDIRECT, text |-> Join(lines, <<"\n">>)]

\* the content of the patterns textarea of the dashboard
index_log_patterns(text) == Join(read_log_ignore_patterns(text), <<"\n">>)

\* log_middleware: enabled && !ignored, computed when the request arrives
should_log(enabled_text, ignore_text, path) ==
    /\ read_log_enabled(enabled_text)
    /\ ~is_log_ignored(read_log_ignore_patterns(ignore_text), path)

\* log_middleware deciding about the RES line from the configuration as
\* the handler left it
res_logged_Reread(at_arrival, after) == after

\* log_middleware: the RES line is logged under the flags that were read
\* before the handler ran
res_logged(at_arrival, after) == at_arrival

\* the log_line calls of log_middleware: REQ before the handler runs if
\* log_req, RES after it if log_res
MiddlewareLogs(log_req, log_res) ==
    LET n == (IF log_req THEN 1 ELSE 0) + (IF log_res THEN 1 ELSE 0)
        buffer1 == IF n >= 1 THEN log_line_buffer(buffer, published + 1)
                   ELSE buffer
        buffer2 == IF n >= 2 THEN log_line_buffer(buffer1, published + 2)
                   ELSE buffer1
        subs1 == IF n >= 1 THEN broadcast_send(subs, published + 1) ELSE subs
        subs2 == IF n >= 2 THEN broadcast_send(subs1, published + 2) ELSE subs1
    IN  IF n > 0
        THEN /\ published' = published + n
             /\ call' = HubCall("log_line", log_init, FALSE, <<>>)
             /\ IF log_init
                THEN /\ buffer' = buffer2
                     /\ subs' = subs2
                     /\ feed' = [r \in DOMAIN feed |->
                                    [feed[r] EXCEPT !.lost =
                                        @ + Len(subs[r]) + n - Len(subs2[r])]]
                ELSE UNCHANGED <<buffer, subs, feed>>
        ELSE UNCHANGED <<published, call, buffer, subs, feed>>

(***************************************************************************)
(* SpecLogConfig: requests passing log_middleware, among them the ones     *)
(* that change the toggle and the ignore patterns.                         *)
(***************************************************************************)
ToggleUri == <<"/", "c", "o", "n", "f", "i", "g", "/", "l", "o", "g", "-",
               "t", "o", "g", "g", "l", "e">>
IgnoreUri == <<"/", "c", "o", "n", "f", "i", "g", "/", "l", "o", "g", "-",
               "i", "g", "n", "o", "r", "e">>

ToggleValues ==
    {None, Some(ON), Some(OFF), Some(<<" ", "O", "n", " ">>),
     Some(<<"t", "r", "u", "e">>)}

PatternForms == {None} \cup {Some(t) : t \in IgnoreTexts(1)}

mwUnchanged == <<configVars, dirs, last, written, guardVars, log_init>>

\* a request to a handler that changes neither the toggle nor the patterns
OtherRequest ==
    \E path \in RequestPaths :
        \E log \in {should_log(enabled_file, ignore_file, path)} :
            /\ log => published + 2 <= MaxLogged
            /\ req' = [handler |-> "other", uri |-> path, resubmit |-> FALSE]
            /\ resp' = Response("OK")
            /\ MiddlewareLogs(log, res_logged(log, log))
            /\ UNCHANGED <<mwUnchanged, logConfigVars>>

\* POST /config/log-toggle
SetLogToggle ==
    \E value \in ToggleValues, io_ok \in BOOLEAN :
        \E log \in {should_log(enabled_file, ignore_file, ToggleUri)},
           r \in {set_log_toggle_run(enabled_file, value, io_ok)} :
            /\ log => published + 2 <= MaxLogged
            /\ req' = [handler |-> "set_log_toggle", uri |-> ToggleUri,
                       resubmit |-> FALSE, value |-> value]
            /\ resp' = r.resp
            /\ enabled_file' = r.text
            /\ MiddlewareLogs(log, res_logged(log,
                                  should_log(r.text, ignore_file, ToggleUri)))
            /\ UNCHANGED <<mwUnchanged, ignore_file>>

\* POST /config/log-ignore; the form is either typed by the operator or
\* the textarea of the dashboard sent back as index rendered it
SetLogIgnore ==
    \E resubmit \in BOOLEAN, io_ok \in BOOLEAN :
        \E patterns \in (IF resubmit THEN {Some(index_log_patterns(ignore_file))}
                         ELSE PatternForms) :
            \E log \in {should_log(enabled_file, ignore_file, IgnoreUri)},
               r \in {set_log_ignore_run(ignore_file, patterns, io_ok)} :
                /\ log => published + 2 <= MaxLogged
                /\ Len(Lines(r.text)) <= MaxIgnoreLines + Len(DefaultPatterns)
                /\ req' = [handler |-> "set_log_ignore", uri |-> IgnoreUri,
                           resubmit |-> resubmit]
                /\ resp' = r.resp
                /\ ignore_file' = r.text
                /\ MiddlewareLogs(log, res_logged(log,
                                      should_log(enabled_file, r.text, IgnoreUri)))
                /\ UNCHANGED <<mwUnchanged, enabled_file>>

NextLogConfig == OtherRequest \/ SetLogToggle \/ SetLogIgnore

SpecLogConfig == Init /\ [][NextLogConfig]_vars

(***************************************************************************)
(* Claims about what is logged.                                            *)
(***************************************************************************)
NothingLogged == UNCHANGED <<buffer, subs, published>>

RequestLogged ==
    /\ published' = published + 2
    /\ Len(buffer') >= 2
    /\ buffer'[Len(buffer') - 1] = published + 1
    /\ buffer'[Len(buffer')] = published + 2

\* C15: while the logging toggle is off, no request to any path causes a
\* line to be added to the log history or sent to subscribers; while it is
\* on, a request is logged unless its path is matched by an ignore pattern.
C15_LoggedUnlessOffOrIgnored ==
    [][IF ~read_log_enabled(enabled_file) THEN NothingLogged
       ELSE IF Matched(ignore_file, req'.uri) THEN NothingLogged
       ELSE RequestLogged]_vars

\* the patterns that log_ignore.txt holds
StoredPatterns(text) == NormalizedLines(Lines(text))

\* C17: after any sequence of set_log_ignore calls, and with no
\* log_ignore.txt at all, is_log_ignored("/") and is_log_ignored("/events")
\* are true: the two built-in patterns cannot be removed by configuration.
C17_DefaultsAlwaysIgnored ==
    /\ is_log_ignored(read_log_ignore_patterns(ignore_file), DefaultPatterns[1])
    /\ is_log_ignored(read_log_ignore_patterns(ignore_file), DefaultPatterns[2])

\* set_log_ignore has stored a list that names neither built-in pattern
C17_Witness ==
    /\ req.handler = "set_log_ignore"
    /\ resp.status = "REDIRECT"
    /\ StoredPatterns(ignore_file) # <<>>
    /\ \A i \in 1..Len(StoredPatterns(ignore_file)) :
           /\ ~Matches(StoredPatterns(ignore_file)[i], DefaultPatterns[1])
           /\ ~Matches(StoredPatterns(ignore_file)[i], DefaultPatterns[2])

\* C18: the two built-in patterns are never persisted: when the dashboard
\* renders the pattern list and the operator submits it back unchanged
\* through set_log_ignore, log_ignore.txt holds the same patterns as before
\* and does not grow.
C18_ResubmitKeepsFile ==
    [][(req'.handler = "set_log_ignore" /\ req'.resubmit)
       => StoredPatterns(ignore_file') = StoredPatterns(ignore_file)]_vars

(***************************************************************************)
(* SpecScalar: the two scalar reads over every state of the backing file.  *)
(***************************************************************************)
ScalarAlphabet == {" ", "\n", "a", "/"}

\* the backing file: absent, present but not readable as text, or a text
ScalarFiles ==
    {[kind |-> "missing"], [kind |-> "unreadable"]}
    \cup {[kind |-> "text", text |-> t] :
            t \in StringsUpTo(ScalarAlphabet, MaxScalarLen)}

\* std::fs::read_to_string
read_to_string(file) ==
    IF file.kind = "text" THEN Some(file.text) ELSE None

InitScalar ==
    /\ arg \in ScalarFiles
    /\ out = None
    /\ routes = <<>> /\ ping_file = <<>> /\ refresh_file = <<>>
    /\ dirs = <<>> /\ req = NoRequest /\ resp = Response("NONE")
    /\ last = <<>> /\ written = None
    /\ log_init = TRUE /\ buffer = <<>> /\ subs = <<>> /\ published = 0
    /\ feed = <<>> /\ call = NoCall
    /\ ignore_file = <<>> /\ enabled_file = <<>>

\* read_ping_endpoint with arg as ping_endpoint.txt
CallReadPingEndpoint ==
    /\ out' = [op |-> "read_ping_endpoint",
               value |-> read_ping_endpoint(UnwrapOrDefault(read_to_string(arg)))]
    /\ UNCHANGED harnessUnchanged

\* read_refresh_endpoint with arg as refresh_endpoint.txt
CallReadRefreshEndpoint ==
    /\ out' = [op |-> "read_refresh_endpoint",
               value |-> read_refresh_endpoint(
                             UnwrapOrDefault(read_to_string(arg)))]
    /\ UNCHANGED harnessUnchanged

NextScalar == CallReadPingEndpoint \/ CallReadRefreshEndpoint

SpecScalar == InitScalar /\ [][NextScalar]_vars

\* the file gives the read nothing to return
NothingConfigured(file) ==
    \/ file.kind = "missing"
    \/ file.kind = "unreadable"
    \/ /\ file.kind = "text"
       /\ \A i \in 1..Len(file.text) : file.text[i] \in WhiteSpace

ScalarDefault(op) ==
    IF op = "read_ping_endpoint"
    THEN <<"/", "a", "p", "i", "/", "v", "1", "/", "p", "i", "n", "g">>
    ELSE <<"/", "a", "p", "i", "/", "v", "1", "/", "a", "u", "t", "h", "e",
           "n", "t", "i", "c", "a", "t", "i", "o", "n", "/", "r", "e", "f",
           "r", "e", "s", "h">>

\* C20: read_ping_endpoint returns /api/v1/ping and read_refresh_endpoint
\* returns /api/v1/authentication/refresh whenever the backing file is
\* missing, unreadable, empty or whitespace-only; neither read ever fails:
\* every call returns a non-empty endpoint.
C20_DefaultWhenNothingConfigured ==
    out # None =>
        /\ out.value # <<>>
        /\ NothingConfigured(arg) => out.value = ScalarDefault(out.op)

\* a read of a file holding only whitespace has returned the default
C20_Witness ==
    /\ out # None
    /\ arg.kind = "text"
    /\ arg.text # <<>>
    /\ NothingConfigured(arg)
    /\ out.value = ScalarDefault(out.op)

(***************************************************************************)
(* Claims about the scalar endpoints.                                      *)
(***************************************************************************)
EndpointSet ==
    /\ req.handler \in {"set_ping_endpoint", "set_refresh_endpoint"}
    /\ resp.status = "REDIRECT"

\* the endpoint that the setter of the last request stores, as read back
ReadBack ==
    IF req.handler = "set_ping_endpoint" THEN read_ping_endpoint(ping_file)
    ELSE read_refresh_endpoint(refresh_file)

\* C21: after set_ping_endpoint(v) (likewise set_refresh_endpoint(v))
\* returns success, the next read_ping_endpoint (read_refresh_endpoint)
\* returns exactly v, for every v the setter accepts.
C21_ReadReturnsWhatWasSet ==
    EndpointSet => ReadBack = Unwrap(req.path)

\* a value that names no parent or current directory once its leading
\* slashes are taken off, as the setters test it
TraversalSafe(value) == is_safe_rel_path(TrimStartMatches(value, <<"/">>))

ValidEndpoint(value) == StartsWith(value, ApiPrefix) /\ TraversalSafe(value)

EndpointRejected ==
    /\ req'.handler \in {"set_ping_endpoint", "set_refresh_endpoint"}
    /\ \/ ~IsSome(req'.path)
       \/ ~ValidEndpoint(Unwrap(req'.path))

\* C22: after any sequence of set_ping_endpoint and set_refresh_endpoint
\* calls, accepted or rejected, the value read back for each endpoint
\* starts with /api/ and is traversal-safe; a call whose value does not
\* start with /api/ or is not traversal-safe is rejected and leaves both
\* stored endpoints unchanged.
C22_EndpointsStayValid ==
    /\ [](/\ ValidEndpoint(read_ping_endpoint(ping_file))
          /\ ValidEndpoint(read_refresh_endpoint(refresh_file)))
    /\ [][EndpointRejected =>
             /\ resp'.status = "BAD_REQUEST"
             /\ UNCHANGED <<ping_file, refresh_file>>]_vars

(***************************************************************************)
(* SpecRead: read_route_mappings over a routes.txt of any lines, blank     *)
(* lines included.                                                         *)
(***************************************************************************)
RouteFileLines == EditedLines \cup {<<>>, <<" ">>}

\* the text of a file with the given lines, each ended by a newline
RECURSIVE TextOfLines(_)
TextOfLines(lines) ==
    IF lines = <<>> THEN <<>>
    ELSE Head(lines) \o <<"\n">> \o TextOfLines(Tail(lines))

RouteFiles ==
    {TextOfLines(ls) :
        ls \in UNION {[1..n -> RouteFileLines] : n \in 0..MaxEditedLines}}

InitRead ==
    /\ routes \in RouteFiles
    /\ out = None
    /\ arg = <<>>
    /\ ping_file = <<>> /\ refresh_file = <<>>
    /\ dirs = <<>> /\ req = NoRequest /\ resp = Response("NONE")
    /\ last = <<>> /\ written = None
    /\ log_init = TRUE /\ buffer = <<>> /\ subs = <<>> /\ published = 0
    /\ feed = <<>> /\ call = NoCall
    /\ ignore_file = <<>> /\ enabled_file = <<>>

CallReadRouteMappings ==
    /\ out' = Some(read_route_mappings(routes))
    /\ UNCHANGED harnessUnchanged

NextRead == CallReadRouteMappings

SpecRead == InitRead /\ [][NextRead]_vars

\* the whitespace-separated fields of a line
Fields(line) == SplitWhitespace(line)

\* a line that is a METHOD PATH FILE record passing the three validations
ValidRecord(line) ==
    /\ Fields(line) # <<>>
    /\ Head(Fields(line)[1]) # "#"
    /\ Len(Fields(line)) >= 3
    /\ ToUpper(Fields(line)[1]) \in {GET, POST}
    /\ ValidEndpoint(Fields(line)[2])
    /\ is_safe_rel_path(Fields(line)[3])

RecordOf(line) ==
    RouteMapping(ToUpper(Fields(line)[1]), Fields(line)[2], Fields(line)[3])

\* the records of the valid lines, in file order
RECURSIVE ValidRecords(_)
ValidRecords(lines) ==
    IF lines = <<>> THEN <<>>
    ELSE (IF ValidRecord(Head(lines)) THEN <<RecordOf(Head(lines))>> ELSE <<>>)
         \o ValidRecords(Tail(lines))

\* the lines without the one at position i
WithoutLine(lines, i) ==
    SubSeq(lines, 1, i - 1) \o SubSeq(lines, i + 1, Len(lines))

\* C23: read_route_mappings returns, in file order, exactly the lines of
\* routes.txt that are valid METHOD PATH FILE records: blank lines, '#'
\* lines and lines that fail method, path or file validation are skipped,
\* and the presence of such a line never changes which other lines are
\* returned or how they are parsed.
C23_ReadsValidLinesOnly ==
    out # None =>
        /\ Unwrap(out) = ValidRecords(Lines(routes))
        /\ \A i \in 1..Len(Lines(routes)) :
               ~ValidRecord(Lines(routes)[i])
               => Unwrap(out) = ValidRecords(WithoutLine(Lines(routes), i))

\* a file whose first line is skipped and whose second line is a record has
\* been read
C23_Witness ==
    /\ out # None
    /\ Len(Lines(routes)) >= 2
    /\ ~ValidRecord(Lines(routes)[1])
    /\ ValidRecord(Lines(routes)[2])
    /\ Unwrap(out) = <<RecordOf(Lines(routes)[2])>>

(***************************************************************************)
(* Claims about folders and the route table.                               *)
(***************************************************************************)
\* the file of a mapping lies inside the folder of that name
FileInFolder(file, name) ==
    /\ Len(Pieces(file)) >= 2
    /\ Pieces(file)[1] = name

\* C24: after a folder under the content root is deleted with
\* delete_subdir, the route table contains no mapping whose file lies
\* inside that folder: the matching entries are removed in one persisted
\* write as part of the deletion.
C24_DeleteRemovesMappings ==
    (req.handler = "delete_subdir" /\ resp.status = "REDIRECT")
    => \A i \in 1..Len(read_route_mappings(routes)) :
           ~FileInFolder(read_route_mappings(routes)[i].file, req.names[1])

(***************************************************************************)
(* SpecIo: the five configuration setters with create_dir_all or the write *)
(* failing, and the five configuration reads with files that cannot be     *)
(* read.                                                                   *)
(***************************************************************************)
IoOutcomes == {"ok", "create_dir_failed", "write_failed"}

IoRouteAccepted ==
    {RouteInput(Some(GET), Some(ApiPrefix \o <<"x">>), Some(<<"f">>))}
IoRouteRejected ==
    {RouteInput(Some(GET), Some(<<"/", "x">>), Some(<<"f">>))}

IoEndpointAccepted == {Some(ApiPrefix \o <<"x">>)}
IoEndpointRejected == {Some(<<"/", "x">>)}

IoPatternsAccepted == {Some(<<"/", "a">>)}
IoPatternsRejected == {None}

IoToggleAccepted == {Some(OFF)}
IoToggleRejected == {None}

\* std::fs::read_to_string(path).unwrap_or_default() of a file with the
\* given text that can or cannot be read
ReadOrDefault(text, readable) ==
    UnwrapOrDefault(IF readable THEN Some(text) ELSE None)

ioUnchanged == <<dirs, last, written, arg, hubVars>>

SetRouteMappingIo ==
    \E table \in {read_route_mappings(routes)},
       in \in IoRouteAccepted \cup IoRouteRejected, io \in IoOutcomes :
        \E r \in {set_route_mapping_run(routes, table, in.method, in.path,
                                        in.file, io = "ok")} :
            /\ req' = [handler |-> "set_route_mapping", form |-> in, io |-> io]
            /\ resp' = r.resp
            /\ routes' = r.routes
            /\ UNCHANGED <<ping_file, refresh_file, logConfigVars, out,
                           ioUnchanged>>

SetPingEndpointIo ==
    \E path \in IoEndpointAccepted \cup IoEndpointRejected, io \in IoOutcomes :
        \E r \in {set_endpoint_run(ping_file, path, io = "ok")} :
            /\ req' = [handler |-> "set_ping_endpoint", form |-> path, io |-> io]
            /\ resp' = r.resp
            /\ ping_file' = r.text
            /\ UNCHANGED <<routes, refresh_file, logConfigVars, out,
                           ioUnchanged>>

SetRefreshEndpointIo ==
    \E path \in IoEndpointAccepted \cup IoEndpointRejected, io \in IoOutcomes :
        \E r \in {set_endpoint_run(refresh_file, path, io = "ok")} :
            /\ req' = [handler |-> "set_refresh_endpoint", form |-> path,
                       io |-> io]
            /\ resp' = r.resp
            /\ refresh_file' = r.text
            /\ UNCHANGED <<routes, ping_file, logConfigVars, out, ioUnchanged>>

SetLogIgnoreIo ==
    \E patterns \in IoPatternsAccepted \cup IoPatternsRejected,
       io \in IoOutcomes :
        \E r \in {set_log_ignore_run(ignore_file, patterns, io = "ok")} :
            /\ req' = [handler |-> "set_log_ignore", form |-> patterns,
                       io |-> io]
            /\ resp' = r.resp
            /\ ignore_file' = r.text
            /\ UNCHANGED <<configVars, enabled_file, out, ioUnchanged>>

SetLogToggleIo ==
    \E value \in IoToggleAccepted \cup IoToggleRejected, io \in IoOutcomes :
        \E r \in {set_log_toggle_run(enabled_file, value, io = "ok")} :
            /\ req' = [handler |-> "set_log_toggle", form |-> value, io |-> io]
            /\ resp' = r.resp
            /\ enabled_file' = r.text
            /\ UNCHANGED <<configVars, ignore_file, out, ioUnchanged>>

\* the five reads, of files that all can or all cannot be read
ReadConfig ==
    \E readable \in BOOLEAN :
        /\ req' = [handler |-> "read_config", readable |-> readable]
        /\ resp' = Response("NONE")
        /\ out' = [table |-> read_route_mappings(ReadOrDefault(routes, readable)),
                   ping |-> read_ping_endpoint(ReadOrDefault(ping_file, readable)),
                   refresh |->
                       read_refresh_endpoint(ReadOrDefault(refresh_file, readable)),
                   patterns |->
                       read_log_ignore_patterns(ReadOrDefault(ignore_file, readable)),
                   enabled |->
                       read_log_enabled(ReadOrDefault(enabled_file, readable))]
        /\ UNCHANGED <<configVars, logConfigVars, ioUnchanged>>

NextIo ==
    \/ SetRouteMappingIo
    \/ SetPingEndpointIo
    \/ SetRefreshEndpointIo
    \/ SetLogIgnoreIo
    \/ SetLogToggleIo
    \/ ReadConfig

SpecIo == Init /\ [][NextIo]_vars

(***************************************************************************)
(* Claims about I/O failures.                                              *)
(***************************************************************************)
Setters ==
    {"set_route_mapping", "set_ping_endpoint", "set_refresh_endpoint",
     "set_log_ignore", "set_log_toggle"}

\* the form of the last request passes the validation of its setter
FormAccepted ==
    CASE req.handler = "set_route_mapping" -> req.form \in IoRouteAccepted
      [] req.handler = "set_log_ignore" -> req.form \in IoPatternsAccepted
      [] req.handler = "set_log_toggle" -> req.form \in IoToggleAccepted
      [] OTHER -> req.form \in IoEndpointAccepted

\* C25: every configuration setter answers with a server error when
\* creating the configuration directory or writing the file fails, and
\* never reports success for a write that failed; every configuration read
\* returns its default or empty value when the file cannot be read, never
\* an error.
C25_IoFailures ==
    /\ (req.handler \in Setters /\ req.io # "ok")
       => /\ resp.status # "REDIRECT"
          /\ FormAccepted => resp.status = "INTERNAL_SERVER_ERROR"
    /\ (req.handler = "read_config" /\ ~req.readable)
       => /\ out.table = <<>>
          /\ out.ping = ScalarDefault("read_ping_endpoint")
          /\ out.refresh = ScalarDefault("read_refresh_endpoint")
          /\ out.patterns = <<<<"/">>, <<"/", "e", "v", "e", "n", "t", "s">>>>
          /\ out.enabled

\* the files hold other values than the defaults, then a read finds them
\* unreadable, or a write to them fails
C25_Witness ==
    /\ read_route_mappings(routes) # <<>>
    /\ read_ping_endpoint(ping_file) # ScalarDefault("read_ping_endpoint")
    /\ ~read_log_enabled(enabled_file)
    /\ \/ req.handler = "read_config" /\ ~req.readable
       \/ /\ req.handler = "set_log_toggle" /\ req.io = "write_failed"
          /\ FormAccepted

(***************************************************************************)
(* SpecRace: two set_route_mapping calls on two worker threads of the      *)
(* runtime.  Each call is two steps, the read of routes.txt with the       *)
(* change of its own copy, and the write of that copy; nothing keeps the   *)
(* other call from running between the two.  arg[w] is the call of worker  *)
(* w: where it is, its form, its entry and copy, its response, and         *)
(* whether the other call has written since this one read.                 *)
(***************************************************************************)
Workers == {1, 2}

RaceForms ==
    [Workers ->
        {RouteInput(Some(GET), Some(ApiPrefix \o <<"x">>), Some(<<"f">>)),
         RouteInput(Some(POST), Some(ApiPrefix \o <<"x">>), Some(<<"g">>)),
         RouteInput(Some(GET), Some(ApiPrefix \o <<"y">>), Some(<<"h">>)),
         RouteInput(Some(GET), Some(<<"/", "y">>), Some(<<"h">>))}]

RaceTables ==
    {<<>>,
     \* "GET /api/z k"
     <<"G", "E", "T", " ", "/", "a", "p", "i", "/", "z", " ", "k", "\n">>,
     \* "GET /api/x k"
     <<"G", "E", "T", " ", "/", "a", "p", "i", "/", "x", " ", "k", "\n">>}

RaceCall(form) ==
    [pc |-> "start", form |-> form, entry |-> None, mappings |-> None,
     resp |-> Response("NONE"), stale |-> FALSE]

InitRace ==
    /\ routes \in RaceTables
    /\ \E forms \in RaceForms : arg = [w \in Workers |-> RaceCall(forms[w])]
    /\ out = None
    /\ ping_file = <<>> /\ refresh_file = <<>>
    /\ dirs = <<>> /\ req = NoRequest /\ resp = Response("NONE")
    /\ last = <<>> /\ written = None
    /\ log_init = TRUE /\ buffer = <<>> /\ subs = <<>> /\ published = 0
    /\ feed = <<>> /\ call = NoCall
    /\ ignore_file = <<>> /\ enabled_file = <<>>

\* the list that a call hands to write_route_mappings if it reads the table
\* again when it writes
mappings_to_write_Reread(c, table) == Some(Upsert(table, Unwrap(c.entry)))

\* the list that a call hands to write_route_mappings: the copy it made
\* when it read the table
mappings_to_write(c, table) == c.mappings

raceUnchanged ==
    <<ping_file, refresh_file, dirs, last, written, out, logVars>>

\* set_route_mapping up to mappings.push: the form is validated, the table
\* read and the copy changed
SetRouteMappingRead(w) ==
    /\ arg[w].pc = "start"
    /\ \E table \in {read_route_mappings(routes)} :
        \E r \in {set_route_mapping_run(routes, table, arg[w].form.method,
                                        arg[w].form.path, arg[w].form.file,
                                        TRUE)} :
            /\ arg' = [arg EXCEPT
                         ![w] = IF IsSome(r.list)
                                THEN [@ EXCEPT !.pc = "write",
                                               !.entry = r.entry,
                                               !.mappings = r.list]
                                ELSE [@ EXCEPT !.pc = "done", !.resp = r.resp]]
            /\ IF IsSome(r.list) THEN UNCHANGED <<req, resp>>
               ELSE /\ req' = [handler |-> "set_route_mapping", worker |-> w]
                    /\ resp' = r.resp
    /\ UNCHANGED <<routes, raceUnchanged>>

\* set_route_mapping from write_route_mappings on
SetRouteMappingWrite(w) ==
    /\ arg[w].pc = "write"
    /\ \E io_ok \in BOOLEAN, table \in {read_route_mappings(routes)} :
        \E r \in {IF io_ok THEN REDIRECT ELSE INTERNAL_SERVER_ERROR} :
            /\ routes' = IF io_ok
                         THEN write_route_mappings(
                                  Unwrap(mappings_to_write(arg[w], table)))
                         ELSE routes
            /\ arg' = [v \in Workers |->
                         IF v = w THEN [arg[v] EXCEPT !.pc = "done", !.resp = r]
                         ELSE IF io_ok /\ arg[v].pc = "write"
                              THEN [arg[v] EXCEPT !.stale = TRUE]
                              ELSE arg[v]]
            /\ req' = [handler |-> "set_route_mapping", worker |-> w]
            /\ resp' = r
    /\ UNCHANGED raceUnchanged

NextRace ==
    \E w \in Workers : SetRouteMappingRead(w) \/ SetRouteMappingWrite(w)

SpecRace == InitRace /\ [][NextRace]_vars

(***************************************************************************)
(* Claims about concurrent mutations.                                      *)
(***************************************************************************)
BothSucceeded ==
    \A w \in Workers : arg[w].pc = "done" /\ arg[w].resp.status = "REDIRECT"

DifferentKeys ==
    \/ Unwrap(arg[1].entry).method # Unwrap(arg[2].entry).method
    \/ Unwrap(arg[1].entry).path # Unwrap(arg[2].entry).path

\* the entry of the call of worker w is not in the table
Lost(w) ==
    \A i \in 1..Len(read_route_mappings(routes)) :
        read_route_mappings(routes)[i] # Unwrap(arg[w].entry)

Other(w) == CHOOSE v \in Workers : v # w

\* C26: two route-table mutations that run concurrently (each reads the
\* whole table, changes its own copy and writes the whole table back, with
\* no lock between the read and the write) can interleave so that both
\* report success while the final table lacks the effect of one of them:
\* the effect of a call is missing exactly when the other call wrote a copy
\* that it had read before this call wrote.
C26_LostUpdate ==
    (BothSucceeded /\ DifferentKeys)
    => \A w \in Workers : Lost(w) <=> arg[Other(w)].stale

\* both calls have reported success and the table lacks the entry of one
C26_Witness ==
    /\ BothSucceeded
    /\ DifferentKeys
    /\ \E w \in Workers : Lost(w) /\ ~Lost(Other(w))

(***************************************************************************)
(* Claims about configuration being read afresh.                           *)
(***************************************************************************)
PingJustSet == req.handler = "set_ping_endpoint" /\ resp.status = "REDIRECT"

RouteJustSet == req.handler = "set_route_mapping" /\ resp.status = "REDIRECT"

\* the next request is for the method and path of the entry just stored and
\* is not for a virtual endpoint
NextMatchesRoute ==
    /\ req'.handler = (IF Unwrap(req.method) = GET THEN "api_get" ELSE "api_post")
    /\ ApiPrefix \o req'.path = Unwrap(req.path)
    /\ ~(req'.handler = "api_get"
         /\ ApiPrefix \o req'.path = read_ping_endpoint(ping_file))
    /\ ~(req'.handler = "api_post"
         /\ ApiPrefix \o req'.path = read_refresh_endpoint(refresh_file))

\* C27: configuration is never cached: the first request handled after a
\* setter returns success already sees the new value.  Once
\* set_ping_endpoint(p2) succeeds, a GET on p2 gets the ping response and a
\* GET on another path, the previous ping path included, does not; once
\* set_route_mapping succeeds, the next matching request is served the new
\* file.
C27_NoStaleConfiguration ==
    [][/\ (PingJustSet /\ req'.handler = "api_get")
          => (resp'.body = "ping"
              <=> ApiPrefix \o req'.path = Unwrap(req.path))
       /\ (RouteJustSet /\ NextMatchesRoute)
          => resp'.served = req.file]_vars

(***************************************************************************)
(* Claims about rejections.                                                *)
(***************************************************************************)
\* C28: every request that a handler answers with a validation rejection
\* (client error) has performed no filesystem mutation: the rejection is
\* decided before any directory is created or any file is written.  This
\* holds for upload_files as well, including an upload into a valid folder
\* name whose every file name is unsafe.
C28_RejectionBeforeMutation ==
    [][resp'.status = "BAD_REQUEST"
       => /\ dirs' = dirs
          /\ \A i \in 1..Len(resp'.fs) :
                 resp'.fs[i].op \notin {"create_dir_all", "write",
                                        "remove_dir_all", "rename_from",
                                        "rename_to"}]_vars

(***************************************************************************)
(* Claims about the lines of one request.                                  *)
(***************************************************************************)
\* C29: for every request passing through log_middleware, the REQ line and
\* the RES line are either both published or both omitted, one of each at
\* most: the logging decision (toggle and ignore patterns) is taken once
\* when the request arrives and reused for the response, even when the
\* request itself changes the toggle or the ignore patterns.
C29_BothLinesOrNone ==
    [][IF should_log(enabled_file, ignore_file, req'.uri)
       THEN RequestLogged
       ELSE NothingLogged]_vars

\* the request that turned the toggle off has been logged with both lines
C29_Witness ==
    /\ req.handler = "set_log_toggle"
    /\ resp.status = "REDIRECT"
    /\ ~read_log_enabled(enabled_file)
    /\ ignore_file = <<>>
    /\ call.op = "log_line"
    /\ published = 2
    /\ Len(buffer) = 2

(***************************************************************************)
(* Claims about the logging toggle.                                        *)
(***************************************************************************)
\* a text that stands for on: nothing, or on, true or 1 in any letter case
ReadsAsOn(text) ==
    ToLower(Trim(text)) \in {<<>>, <<"o", "n">>, <<"t", "r", "u", "e">>, <<"1">>}

\* a text that stands for off: off or false in any letter case
ReadsAsOff(text) ==
    ToLower(Trim(text)) \in {<<"o", "f", "f">>, <<"f", "a", "l", "s", "e">>}

\* C30: read_log_enabled is true when log_enabled.txt is missing or empty
\* and when its trimmed content is on, true or 1 in any letter case, and
\* false when it is off or false in any letter case; after
\* set_log_toggle(v) succeeds the next read_log_enabled agrees with v under
\* that same reading of on/off/true/false/1.
C30_ToggleReadsAsWritten ==
    /\ ReadsAsOn(enabled_file) => read_log_enabled(enabled_file)
    /\ ReadsAsOff(enabled_file) => ~read_log_enabled(enabled_file)
    /\ (req.handler = "set_log_toggle" /\ resp.status = "REDIRECT")
       => /\ ReadsAsOn(Unwrap(req.value)) => read_log_enabled(enabled_file)
          /\ ReadsAsOff(Unwrap(req.value)) => ~read_log_enabled(enabled_file)

(***************************************************************************)
(* SpecRaceWrite: the two calls of SpecRace with std::fs::write as the     *)
(* two steps it is made of, File::create, which opens routes.txt and       *)
(* truncates it, and write_all, which writes the text at the start of the  *)
(* file through the call's own handle.                                     *)
(***************************************************************************)
\* the file after text has been written at offset 0 over contents
WriteAtStart(contents, text) ==
    text \o SubSeq(contents, Len(text) + 1, Len(contents))

\* File::create of write_route_mappings
WriteRouteMappingsCreate(w) ==
    /\ arg[w].pc = "write"
    /\ \E io_ok \in BOOLEAN :
        IF io_ok
        THEN /\ routes' = <<>>
             /\ arg' = [arg EXCEPT ![w].pc = "opened"]
             /\ UNCHANGED <<req, resp>>
        ELSE /\ arg' = [arg EXCEPT ![w].pc = "done",
                                   ![w].resp = INTERNAL_SERVER_ERROR]
             /\ req' = [handler |-> "set_route_mapping", worker |-> w]
             /\ resp' = INTERNAL_SERVER_ERROR
             /\ UNCHANGED routes
    /\ UNCHANGED raceUnchanged

\* write_all of write_route_mappings and the response of the handler
WriteRouteMappingsWriteAll(w) ==
    /\ arg[w].pc = "opened"
    /\ routes' = WriteAtStart(routes,
                              write_route_mappings(Unwrap(arg[w].mappings)))
    /\ arg' = [arg EXCEPT ![w].pc = "done", ![w].resp = REDIRECT]
    /\ req' = [handler |-> "set_route_mapping", worker |-> w]
    /\ resp' = REDIRECT
    /\ UNCHANGED raceUnchanged

NextRaceWrite ==
    \E w \in Workers :
        \/ SetRouteMappingRead(w)
        \/ WriteRouteMappingsCreate(w)
        \/ WriteRouteMappingsWriteAll(w)

SpecRaceWrite == InitRace /\ [][NextRaceWrite]_vars

\* C31: in every interleaving of concurrently running set_route_mapping
\* calls that starts from a table without duplicate keys, every content
\* routes.txt ever holds has at most one entry per (method, path): racing
\* upserts may lose entries but never create a duplicate key.
C31_NoDuplicateKey ==
    \A i, j \in 1..Len(read_route_mappings(routes)) :
        KeyOf(read_route_mappings(routes)[i]) = KeyOf(read_route_mappings(routes)[j])
        => i = j

(***************************************************************************)
(* Claims about an upsert and the lookup after it.                         *)
(***************************************************************************)
\* the submitted file, trimmed, with a leading /json/ or json/ removed
SubmittedFile(file) ==
    LET t == Trim(file)
    IN  IF StartsWith(t, JsonPrefixAbs)
        THEN SubSeq(t, Len(JsonPrefixAbs) + 1, Len(t))
        ELSE IF StartsWith(t, JsonPrefixRel)
             THEN SubSeq(t, Len(JsonPrefixRel) + 1, Len(t))
             ELSE t

\* C32: whenever set_route_mapping(method, path, file) returns success, an
\* immediately following find_route_mapping(method, path) returns the
\* submitted file (with a leading /json/ or json/ prefix removed), for
\* every input the handler's validation accepts, including a path or file
\* with whitespace inside it and a file that is empty once the prefix is
\* removed.
C32_FindAfterSet ==
    (req.handler = "set_route_mapping" /\ resp.status = "REDIRECT")
    => find_route_mapping(read_route_mappings(routes),
                          ToUpper(Trim(Unwrap(req.method))),
                          Trim(Unwrap(req.path)))
       = Some(SubmittedFile(Unwrap(req.file)))

\* the key and the entry a request to set_route_mapping submits
SubmittedKey(r) == <<ToUpper(Trim(Unwrap(r.method))), Trim(Unwrap(r.path))>>

SubmittedEntry(r) ==
    RouteMapping(SubmittedKey(r)[1], SubmittedKey(r)[2],
                 SubmittedFile(Unwrap(r.file)))

UpsertFrame ==
    LET old == read_route_mappings(routes)
        new == read_route_mappings(routes')
        others == SelectSeq(old, LAMBDA m : KeyOf(m) # SubmittedKey(req'))
    IN  /\ new = Append(others, SubmittedEntry(req'))
        /\ UNCHANGED <<ping_file, refresh_file, ignore_file, enabled_file>>

\* C35: a successful set_route_mapping for key (method, path) leaves every
\* table entry with a different key unchanged and in the same relative
\* order, places the new entry last, and changes neither the endpoint
\* files, the ignore-pattern file nor the toggle file.
C35_UpsertFrame ==
    [][(req'.handler = "set_route_mapping" /\ resp'.status = "REDIRECT")
       => UpsertFrame]_vars

(***************************************************************************)
(* SpecLogRace: log_line called from several tasks at once, a subscriber   *)
(* and a dashboard viewer.  log_line is the steps it is made of: the       *)
(* broadcast send, the wait for the buffer lock, then under the lock the   *)
(* eviction and the append; the lock is released when the call returns.    *)
(* arg[t] is the call of task t: where it is and its line.  The history    *)
(* starts with RaceBase lines from earlier calls, so that the racing calls *)
(* fill it and evict.  out is the snapshot the viewer's page was rendered  *)
(* with; the viewer subscribes after that.                                 *)
(***************************************************************************)
Tasks == {1, 2}

RaceBase == LogCap - 2

Viewer == "viewer"

RaceReceivers == Receivers \cup {Viewer}

InitLogRace ==
    /\ log_init = TRUE
    /\ buffer = LinesFromTo(0, RaceBase)
    /\ published = RaceBase
    /\ subs = <<>> /\ feed = <<>> /\ call = NoCall
    /\ arg = [t \in Tasks |-> [pc |-> "idle", line |-> 0]]
    /\ out = None
    /\ routes = <<>> /\ ping_file = <<>> /\ refresh_file = <<>>
    /\ dirs = <<>> /\ req = NoRequest /\ resp = Response("NONE")
    /\ last = <<>> /\ written = None
    /\ ignore_file = <<>> /\ enabled_file = <<>>

\* the buffer mutex with nothing keeping a second task out
mutex_free_NoExclusion(tasks) == TRUE

\* state.buffer.lock(): the mutex is free when no call is between its lock
\* and its return
mutex_free(tasks) == \A t \in Tasks : tasks[t].pc \notin {"evict", "append"}

\* log_line giving up when the send found no receiver
after_send_StopIfNoReceiver(rx) == IF DOMAIN rx = {} THEN "idle" ELSE "lock"

\* log_line after `let _ = state.sender.send(..)`: it goes on to the buffer
\* whatever the send returned
after_send(rx) == "lock"

logRaceUnchanged ==
    <<configVars, dirs, req, resp, last, written, log_init, logConfigVars>>

\* let _ = state.sender.send(line.clone())
LogLineSend(t) ==
    /\ arg[t].pc = "idle"
    /\ published < RaceBase + MaxRaceLines
    /\ published' = published + 1
    /\ subs' = broadcast_send(subs, published + 1)
    /\ feed' = [r \in DOMAIN feed |->
                   [feed[r] EXCEPT !.lost = @ + Len(subs[r]) + 1 - Len(subs'[r])]]
    /\ arg' = [arg EXCEPT ![t] = [pc |-> after_send(subs), line |-> published + 1]]
    /\ call' = HubCall("log_line", log_init, FALSE, <<>>)
    /\ UNCHANGED <<buffer, out, logRaceUnchanged>>

\* state.buffer.lock().unwrap()
LogLineLock(t) ==
    /\ arg[t].pc = "lock"
    /\ mutex_free(arg)
    /\ arg' = [arg EXCEPT ![t].pc = "evict"]
    /\ UNCHANGED <<buffer, subs, published, feed, call, out, logRaceUnchanged>>

\* if buf.len() >= 200 { buf.pop_front(); }
LogLineEvict(t) ==
    /\ arg[t].pc = "evict"
    /\ buffer' = IF Len(buffer) >= LogCap THEN Tail(buffer) ELSE buffer
    /\ arg' = [arg EXCEPT ![t].pc = "append"]
    /\ UNCHANGED <<subs, published, feed, call, out, logRaceUnchanged>>

\* buf.push_back(line), and the guard dropped at the end of the block
LogLineAppend(t) ==
    /\ arg[t].pc = "append"
    /\ buffer' = Append(buffer, arg[t].line)
    /\ arg' = [arg EXCEPT ![t].pc = "idle"]
    /\ UNCHANGED <<subs, published, feed, call, out, logRaceUnchanged>>

\* a viewer whose script connects before the page has its snapshot
index_rendered_Early(snapshot) == TRUE

\* the script that opens /events is part of the page index() returns, so
\* it runs once index() has taken log_snapshot()
index_rendered(snapshot) == snapshot # None

\* index: the page of the viewer is rendered with log_snapshot()
IndexSnapshot ==
    /\ out = None
    /\ mutex_free(arg)
    /\ out' = Some(log_snapshot)
    /\ call' = HubCall("log_snapshot", log_init, FALSE, log_snapshot)
    /\ UNCHANGED <<buffer, subs, published, feed, arg, logRaceUnchanged>>

\* sse_logs: any client at any time, the viewer once its page is rendered
SseLogsRace ==
    /\ \E r \in RaceReceivers \ DOMAIN subs :
           /\ r = Viewer => index_rendered(out)
           /\ subs' = (r :> subscribe_logs(buffer)) @@ subs
           /\ feed' = (r :> NewFeed(published)) @@ feed
    /\ call' = HubCall("subscribe_logs", TRUE, FALSE, <<>>)
    /\ UNCHANGED <<buffer, published, arg, out, logRaceUnchanged>>

NextLogRace ==
    \/ \E t \in Tasks : LogLineSend(t)
    \/ \E t \in Tasks : LogLineLock(t)
    \/ \E t \in Tasks : LogLineEvict(t)
    \/ \E t \in Tasks : LogLineAppend(t)
    \/ IndexSnapshot
    \/ SseLogsRace

SpecLogRace == InitLogRace /\ [][NextLogRace]_vars

\* every started call runs on: a task that holds the lock gets to the end
\* of log_line, and a task waiting for the lock gets it once it is free
SpecLogRaceFair ==
    /\ SpecLogRace
    /\ \A t \in Tasks : /\ WF_vars(LogLineLock(t))
                        /\ WF_vars(LogLineEvict(t))
                        /\ WF_vars(LogLineAppend(t))

(***************************************************************************)
(* Claims about concurrent log_line calls.                                 *)
(***************************************************************************)
\* the position of a line in a sequence of distinct lines
PositionIn(seq, x) == CHOOSE i \in 1..Len(seq) : seq[i] = x

InSeq(seq, x) == \E i \in 1..Len(seq) : seq[i] = x

\* C33: when log_line is called concurrently from several tasks, the
\* history and the live feed agree on order: for any two lines that are
\* both in log_snapshot and both received by one subscriber, their relative
\* order in the snapshot is the order in which the subscriber received
\* them.
C33_HistoryAndFeedAgree ==
    mutex_free(arg) =>
        \A r \in DOMAIN subs :
            \A i, j \in 1..Len(subs[r]) :
                (i < j /\ InSeq(log_snapshot, subs[r][i])
                       /\ InSeq(log_snapshot, subs[r][j]))
                => PositionIn(log_snapshot, subs[r][i])
                       < PositionIn(log_snapshot, subs[r][j])

\* the lines of the racing calls whose log_line has pushed them and returned
Returned ==
    {x \in (RaceBase + 1)..published :
        \A t \in Tasks : arg[t].pc = "idle" \/ arg[t].line # x}

\* the earlier lines that have fewer than LogCap newer lines in the history
KeptEarlier ==
    {x \in 1..RaceBase : (RaceBase - x) + Cardinality(Returned) < LogCap}

NoDuplicates(seq) == Cardinality({seq[i] : i \in 1..Len(seq)}) = Len(seq)

HistoryExact ==
    /\ Len(buffer) <= LogCap
    /\ NoDuplicates(buffer)
    /\ {buffer[i] : i \in 1..Len(buffer)} = KeptEarlier \cup Returned
    /\ \A i \in 1..(Len(buffer) - 1) :
           buffer[i + 1] <= RaceBase => buffer[i] < buffer[i + 1]

\* C34: under any number of concurrent log_line calls, no published line
\* is lost from or duplicated in the history while fewer than 200 newer
\* lines exist, and the history length never exceeds 200: the
\* evict-then-append step is atomic under the buffer lock (whenever the
\* lock is free the history is exactly the kept earlier lines followed by
\* the pushed ones, each once), and no task waits forever for the lock.
C34_HistoryAtomicAndLockFree ==
    /\ [](Len(buffer) <= LogCap)
    /\ [](mutex_free(arg) => HistoryExact)
    /\ \A t \in Tasks : (arg[t].pc = "lock") ~> (arg[t].pc = "idle")

\* the history is full, line 1 was evicted, and the racing calls pushed
\* their lines in another order than they sent them
C34_Witness ==
    /\ mutex_free(arg)
    /\ Len(buffer) = LogCap
    /\ buffer[1] = 2
    /\ buffer[LogCap] < buffer[LogCap - 1]
    /\ \E t \in Tasks : arg[t].pc = "idle" /\ arg[t].line = buffer[LogCap]

\* C36: log_line always records the line in the history, also when there
\* is no subscriber at all; and every subscriber that exists when log_line
\* is called and is not lagging receives the line exactly once, in the
\* order of the sends.
C36_RecordedAndDelivered ==
    /\ \A x \in Returned : InSeq(buffer, x)
    /\ \A r \in DOMAIN subs :
           feed[r].lost = 0 => subs[r] = LinesFromTo(feed[r].joined, published)

\* a line was logged and recorded with no subscriber, a subscriber joined,
\* and the next line reached it
C36_Witness ==
    /\ DOMAIN subs # {}
    /\ \A r \in DOMAIN subs : feed[r].joined = RaceBase + 1 /\ Len(subs[r]) >= 1
    /\ published > RaceBase + 1
    /\ Returned = (RaceBase + 1)..published

\* C38: a dashboard viewer that first takes log_snapshot and afterwards
\* subscribes to the live feed never sees the same published line twice
\* (once in the snapshot and once live), in any interleaving with
\* concurrent log_line calls.
C38_NoLineTwice ==
    (out # None /\ Viewer \in DOMAIN subs) =>
        \A i \in 1..Len(subs[Viewer]) : ~InSeq(Unwrap(out), subs[Viewer][i])

\* the snapshot has a line of the racing calls, the viewer received a later
\* one live, and a line sent before the snapshot was pushed after it
C38_Witness ==
    /\ out # None /\ Viewer \in DOMAIN subs
    /\ InSeq(Unwrap(out), RaceBase + 1)
    /\ Len(subs[Viewer]) >= 1
    /\ \E x \in (RaceBase + 1)..published :
           ~InSeq(Unwrap(out), x) /\ ~InSeq(subs[Viewer], x) /\ InSeq(buffer, x)

(***************************************************************************)
(* SpecServe: mapped files read from a content root that uploads fill.     *)
(* The outcome of fs::read follows from what the content root holds: the   *)
(* walk along the components of the joined path ends with the file, with   *)
(* nothing under that name, with a directory, or with a regular file where *)
(* a directory is needed.                                                  *)
(***************************************************************************)
\* the names of the joined path json/<file>
PathNames(file) ==
    SelectSeq(JoinedPieces(<<file>>), LAMBDA p : p # <<>> /\ p # <<".">>)

\* what open(2) finds for json/<file>: the content root holds directories,
\* and each directory holds regular files
Lookup(tree, file) ==
    LET parts == PathNames(file)
    IN  IF Len(parts) = 0 THEN "directory"
        ELSE IF parts[1] \notin DOMAIN tree THEN "absent"
        ELSE IF Len(parts) = 1 THEN "directory"
        ELSE IF parts[2] \notin tree[parts[1]] THEN "absent"
        ELSE IF Len(parts) = 2 THEN "file"
        ELSE "not_a_directory"

\* fs::read(path) as serve_mapped_json sees it: the bytes, an error of kind
\* NotFound (ENOENT), or an error of another kind (EISDIR, ENOTDIR, and
\* EACCES when the file is there but may not be read)
fs_read(tree, file, denied) ==
    CASE Lookup(tree, file) = "file" -> IF denied THEN "error" ELSE "ok"
      [] Lookup(tree, file) = "absent" -> "not_found"
      [] OTHER -> "error"

ServeFiles ==
    {<<"d", "/", "f">>, <<"d", "/", "g">>, <<"e", "/", "f">>, <<"d">>,
     <<"d", "/", "f", "/", "g">>}

ServeRouteInputs ==
    {RouteInput(Some(GET), Some(ApiPrefix \o <<"x">>), Some(f)) : f \in ServeFiles}

ServeApiPaths ==
    {<<"x">>, <<"p">>, SubSeq(DefaultPing, Len(ApiPrefix) + 1, Len(DefaultPing))}

ServeUploads == {<<Some(<<"f">>)>>, <<Some(<<".", ".", "/", "f">>)>>}

\* POST /json/:subdir
UploadFilesServe ==
    \E subdir \in {<<"d">>}, fields \in ServeUploads, mk_ok, wr_ok \in BOOLEAN :
        \E r \in {upload_files(dirs, subdir, fields, mk_ok, wr_ok)} :
            /\ req' = [handler |-> "upload_files"]
            /\ resp' = r.resp
            /\ dirs' = r.dirs
            /\ UNCHANGED fsUnchanged

\* GET /api/*path; denied is whether the permissions of a file that is
\* there refuse the read
ApiGetServe ==
    \E ping \in {read_ping_endpoint(ping_file)}, table \in {read_route_mappings(routes)},
       path \in ServeApiPaths, denied \in BOOLEAN :
        \E file \in {find_route_mapping(table, GET, ApiPrefix \o path)} :
            \E read \in {IF IsSome(file) THEN fs_read(dirs, Unwrap(file), denied)
                         ELSE "not_found"} :
                /\ req' = [handler |-> "api_get", path |-> path, denied |-> denied]
                /\ resp' = api_get(ping, table, path, read)
                /\ UNCHANGED <<dirs, fsUnchanged>>

NextServe ==
    \/ SetRouteMapping(ServeRouteInputs)
    \/ UploadFilesServe
    \/ ApiGetServe

SpecServe == Init /\ [][NextServe]_vars

(***************************************************************************)
(* Claims about the answers of resolution.                                 *)
(***************************************************************************)
\* the file the table maps the request to, if any
MappedFile == find_route_mapping(read_route_mappings(routes), GET, Requested)

\* something exists under the name of the mapped file
MappedExists == Lookup(dirs, Unwrap(MappedFile)) \in {"file", "directory"}

\* C37: resolution keeps not-found apart from the other outcomes: a request
\* with no matching mapping, or whose mapped file does not exist, is
\* answered NOT_FOUND; a mapped file that exists but cannot be read is
\* answered with a server error; neither case is answered with the
\* client-error used for validation rejection.  (A request for the ping
\* endpoint is answered before resolution.)
C37_NotFoundKeptApart ==
    (IsGet /\ ~ForPing) =>
        /\ (~IsSome(MappedFile) \/ ~MappedExists) => resp.status = "NOT_FOUND"
        /\ (/\ IsSome(MappedFile) /\ MappedExists
            /\ (req.denied \/ Lookup(dirs, Unwrap(MappedFile)) = "directory"))
           => resp.status = "INTERNAL_SERVER_ERROR"
        /\ resp.status # "BAD_REQUEST"

(***************************************************************************)
(* SpecDecode: url_decode run on every input of up to MaxDecodeLen bytes,  *)
(* one pass of its loop at a time.  arg is the call: the input bytes, the  *)
(* index i (counted from 0 as in the code), the bytes pushed to out, the   *)
(* indices of the input it has read, and where it is: in the loop,         *)
(* returned, or panicked on an index out of bounds.  out is the String it  *)
(* returns, as code points.                                                *)
(***************************************************************************)
Percent == 37
Plus == 43
Space == 32
ReplacementChar == 65533

\* % + 4 F g
DecodeAlphabet == {Percent, Plus, 52, 70, 103}

DecodeInputs == UNION {[1..n -> DecodeAlphabet] : n \in 0..MaxDecodeLen}

\* from_hex
from_hex(byte) ==
    IF byte \in 48..57 THEN Some(byte - 48)
    ELSE IF byte \in 97..102 THEN Some(byte - 97 + 10)
    ELSE IF byte \in 65..70 THEN Some(byte - 65 + 10)
    ELSE None

\* the guard of the '%' arm letting through a '%' with one byte after it
has_two_more_OffByOne(i, len) == i + 1 < len

\* the guard of the '%' arm: i + 2 < bytes.len()
has_two_more(i, len) == i + 2 < len

\* one pass of the loop of url_decode at index i < bytes.len(): the bytes
\* pushed, the next index, the indices read, and whether an index was out
\* of bounds
url_decode_step(bytes, i) ==
    LET len == Len(bytes)
        b == bytes[i + 1]
        plain == [push |-> <<b>>, i |-> i + 1, read |-> {i}, panic |-> FALSE]
    IN  IF b = Plus THEN [plain EXCEPT !.push = <<Space>>]
        ELSE IF b = Percent /\ has_two_more(i, len)
             THEN IF i + 2 >= len
                  THEN [push |-> <<>>, i |-> i, read |-> {i, i + 1, i + 2},
                        panic |-> TRUE]
                  ELSE LET h == from_hex(bytes[i + 2])
                           l == from_hex(bytes[i + 3])
                       IN  IF IsSome(h) /\ IsSome(l)
                           THEN [push |-> <<(Unwrap(h) * 16 + Unwrap(l)) % 256>>,
                                 i |-> i + 3, read |-> {i, i + 1, i + 2},
                                 panic |-> FALSE]
                           ELSE [plain EXCEPT !.read = {i, i + 1, i + 2}]
             ELSE plain

\* String::from_utf8_lossy: ASCII bytes and well-formed two-byte sequences
\* are kept, a byte that starts no well-formed sequence becomes U+FFFD
RECURSIVE from_utf8_lossy(_)
from_utf8_lossy(bytes) ==
    IF bytes = <<>> THEN <<>>
    ELSE IF Head(bytes) < 128
         THEN <<Head(bytes)>> \o from_utf8_lossy(Tail(bytes))
    ELSE IF Head(bytes) \in 194..223 /\ Len(bytes) >= 2 /\ bytes[2] \in 128..191
         THEN <<(Head(bytes) - 192) * 64 + (bytes[2] - 128)>>
              \o from_utf8_lossy(Tail(Tail(bytes)))
    ELSE <<ReplacementChar>> \o from_utf8_lossy(Tail(bytes))

InitDecode ==
    /\ arg \in {[input |-> in, i |-> 0, out |-> <<>>, read |-> {}, pc |-> "loop"] :
                   in \in DecodeInputs}
    /\ out = None
    /\ routes = <<>> /\ ping_file = <<>> /\ refresh_file = <<>>
    /\ dirs = <<>> /\ req = NoRequest /\ resp = Response("NONE")
    /\ last = <<>> /\ written = None
    /\ log_init = TRUE /\ buffer = <<>> /\ subs = <<>> /\ published = 0
    /\ feed = <<>> /\ call = NoCall
    /\ ignore_file = <<>> /\ enabled_file = <<>>

decodeUnchanged == <<configVars, dirs, req, resp, last, written, logVars>>

\* while i < bytes.len() { match bytes[i] { .. } }
UrlDecodeStep ==
    /\ arg.pc = "loop"
    /\ arg.i < Len(arg.input)
    /\ \E r \in {url_decode_step(arg.input, arg.i)} :
           arg' = IF r.panic
                  THEN [arg EXCEPT !.pc = "panicked", !.read = @ \cup r.read]
                  ELSE [arg EXCEPT !.i = r.i, !.out = @ \o r.push,
                                   !.read = @ \cup r.read]
    /\ UNCHANGED <<out, decodeUnchanged>>

\* String::from_utf8_lossy(&out).into_owned()
UrlDecodeReturn ==
    /\ arg.pc = "loop"
    /\ arg.i >= Len(arg.input)
    /\ arg' = [arg EXCEPT !.pc = "returned"]
    /\ out' = Some(from_utf8_lossy(arg.out))
    /\ UNCHANGED decodeUnchanged

NextDecode == UrlDecodeStep \/ UrlDecodeReturn

\* the call runs on until it returns or panics
SpecDecode == InitDecode /\ [][NextDecode]_vars /\ WF_vars(NextDecode)

(***************************************************************************)
(* Claims about url_decode.                                                *)
(***************************************************************************)
IsHexDigit(b) == b \in (48..57) \cup (65..70) \cup (97..102)

\* two hex digits follow index i inside the input
TwoHexFollow(s, i) ==
    /\ i + 2 <= Len(s) - 1
    /\ IsHexDigit(s[i + 2])
    /\ IsHexDigit(s[i + 3])

LoopStepAsClaimed ==
    LET d == arg'.i - arg.i
        b == arg.input[arg.i + 1]
    IN  /\ d \in {1, 3}
        /\ d = 3 => (b = Percent /\ TwoHexFollow(arg.input, arg.i))
        /\ (b = Percent /\ ~TwoHexFollow(arg.input, arg.i))
           => (d = 1 /\ arg'.out = Append(arg.out, Percent))

\* C39: url_decode terminates on every input and never reads past the end
\* of the input: each loop step advances the index by 1 or 3, a '%' is
\* decoded only when two hex digits follow it inside the input, and a '%'
\* without two hex digits is copied unchanged.
C39_UrlDecodeTerminates ==
    /\ [](/\ arg.pc # "panicked"
          /\ arg.read \subseteq 0..(Len(arg.input) - 1)
          /\ arg.i <= Len(arg.input))
    /\ [][(arg.pc = "loop" /\ arg'.pc = "loop") => LoopStepAsClaimed]_vars
    /\ <>(arg.pc = "returned")

\* "%4F%" has returned "O%": the first '%' decoded, the last one copied
C39_Witness ==
    /\ arg.input = <<Percent, 52, 70, Percent>>
    /\ arg.pc = "returned"
    /\ out = Some(<<79, Percent>>)

====
